---- MODULE Spec2Model ----
(***************************************************************************)
(* A model of melina.js's web layer (the build-and-cache pipeline and the  *)
(* request dispatcher of serve), taken from the latest variant of the      *)
(* server module.                                                          *)
(*                                                                         *)
(* Bytes are sequences of tokens.  A virtual path is the triple            *)
(* <<basename, fingerprint, extension>>; the fingerprint of a byte         *)
(* sequence is modelled by the byte sequence itself, i.e. the 8-character  *)
(* digest is taken to be collision free.                                   *)
(***************************************************************************)
EXTENDS Integers, Sequences, FiniteSets, TLC

\* ------------------------------------------------------------------ bounds
MaxCalls == 2
MaxEdits == 1
MaxProdCalls == 3
MaxAssetCalls == 2
MaxAssetReqs == 2
MaxReqs == 1
MaxChunks == 3

MaxClearCalls == 2

MaxClearReqs == 1

\* ------------------------------------------------------------- file system
Missing == "<missing>"

ScriptPaths == {"src/app.ts", "src/bad.ts"}
StylePaths == {"d1/a.css", "d2/a.css", "d1/bad.css", "d1/empty.css"}
GonePaths == {"gone/x.css"}
ImagePaths == {"img/my logo.png"}
SourceFiles == ScriptPaths \cup StylePaths \cup ImagePaths
AllPaths == {""} \cup GonePaths \cup SourceFiles

\* The files on disk when the server starts: two style sheets of the same
\* name and content in different directories, a script and a style sheet
\* with a syntax error, an empty style sheet.
InitialContent(p) ==
    CASE p \in {"src/bad.ts", "d1/bad.css"} -> "bad"
      [] p = "d1/empty.css" -> ""
      [] p \in GonePaths -> Missing
      [] p = "src/app.ts" -> "c2"
      [] OTHER -> "c1"

\* The files that are edited while the server runs, and what is written.
Editable == {"src/app.ts", "d1/a.css"}
Edits == {"c1", "c2"}

\* What buildAsset may be handed: no file object, a BunFile without a name,
\* or a BunFile whose name is a path.
NoFile == "<undefined>"
AssetArgs == {NoFile, "", "gone/x.css", "d1/a.css"}

BaseName(p) ==
    CASE p = "src/app.ts" -> "app"
      [] p \in {"src/bad.ts", "d1/bad.css"} -> "bad"
      [] p \in {"d1/a.css", "d2/a.css"} -> "a"
      [] p = "d1/empty.css" -> "empty"
      [] p \in ImagePaths -> "my logo"
      [] OTHER -> "x"

ExtName(p) ==
    CASE p \in ScriptPaths -> ".ts"
      [] p \in ImagePaths -> ".png"
      [] OTHER -> ".css"

\* --------------------------------------------------------- external tools
Hash(bytes) == bytes

VPath(base, bytes, ext) == <<base, Hash(bytes), ext>>

NoPath == <<"", <<>>, "">>

getContentType(ext) ==
    CASE ext = ".css" -> "text/css"
      [] ext = ".js" -> "text/javascript"
      [] ext = ".png" -> "image/png"
      [] ext = ".json" -> "application/json"
      [] OTHER -> "application/octet-stream"

\* postcss([autoprefixer, tailwind]).process: "c1" is CSS the plugins leave
\* as it is, "c2" gets prefixes added, the empty file gives the empty string.
PostCssFails(c) == c = "bad"

PostCssCss(c) ==
    CASE c = "c1" -> <<"c1">>
      [] c = "c2" -> <<"c2", "prefixed">>
      [] OTHER -> <<>>

\* The source map names the source file and carries its content.
PostCssMap(p, c) == <<"map", p, c>>

\* Bun.build: the entry bundle depends on the source and, when the source
\* imports a local module ("c2"), on whether everything is external.
BundleFails(c) == c = "bad"

JsBytes(c, allExternal, dev) ==
    <<"js", c,
      IF c = "c2" /\ allExternal THEN "ext*" ELSE "ext",
      IF dev THEN "dev" ELSE "min">>

BunOutputs(p, c, allExternal, dev) ==
    LET js == JsBytes(c, allExternal, dev)
        entry == [path |-> VPath(BaseName(p), js, ".js"), bytes |-> js,
                  kind |-> "entry-point", type |-> "text/javascript"]
        smap == [path |-> VPath(BaseName(p), js, ".js.map"),
                 bytes |-> <<"map", p, c>>,
                 kind |-> "sourcemap", type |-> "application/json"]
    IN  IF dev THEN <<entry, smap>> ELSE <<entry>>

\* ------------------------------------------------------------------- state
VARIABLES
    isDev,        \* module-level mode flag
    pkgOk,        \* whether package.json can be imported
    fs,           \* source path -> content, or Missing
    buildCache,   \* source path -> [outputPath, content]
    builtAssets,  \* virtual path -> [content, contentType]
    calls,        \* build calls: where each is suspended, and what it returned
    edits,        \* editable source file -> times it was rewritten so far
    returned,     \* virtual paths returned by build calls so far
    okRes,        \* <<fn, path>> -> virtual paths returned by completed calls
    serveIsDev,   \* the mode flag serve() evaluated when it was called
    reqs,         \* requests: where each is in fetch, and its response
    importCall,   \* one call of imports(): where it is suspended, and its result
    mcp,          \* one request to the MCP endpoint: its messages and its reply
    listener,     \* one call of serve(): the ports in use and the port it binds
    page          \* one page of the page server: its stream and its handler

buildVars == <<isDev, pkgOk, fs, buildCache, builtAssets, calls,
               edits, returned, okRes>>

serveVars == <<serveIsDev, reqs>>

importVars == <<importCall>>

otherVars == <<mcp, listener, page>>

coreVars == <<buildVars, serveVars, importVars>>

vars == <<coreVars, otherVars>>

Calls == DOMAIN calls

Put(f, k, v) == [x \in DOMAIN f \cup {k} |-> IF x = k THEN v ELSE f[x]]

EmptyMap == [x \in {} |-> x]

IdleCall ==
    [fn |-> "", path |-> "", allExternal |-> FALSE, pc |-> "idle",
     src |-> "", outs |-> <<>>, main |-> NoPath, res |-> NoPath,
     err |-> "", cause |-> "", built |-> 0, fallbacks |-> 0,
     fallbackOk |-> FALSE, prevs |-> {}, with |-> {}, hit |-> FALSE,
     ver |-> 0, verEnd |-> 0]

Settled(c) == calls[c].pc \in {"idle", "ok", "failed"}

InFlight == {c \in Calls : ~Settled(c)}

\* Calls are numbered in the order they start.
FreeSlot(c) ==
    /\ calls[c].pc = "idle"
    /\ \A d \in Calls : d < c => calls[d].pc # "idle"

\* The calls table once slot c holds `rec`.
Started(c, rec) == [calls EXCEPT ![c] = rec]

Exists(p) == p \in DOMAIN fs /\ fs[p] # Missing

\* How often source file p has been rewritten.
Version(p) == IF p \in DOMAIN edits THEN edits[p] ELSE 0

TotalEdits == Version("src/app.ts") + Version("d1/a.css")

\* The source of call c was the same from its start to its end and is still.
Unchanged(c) ==
    /\ calls[c].ver = calls[c].verEnd
    /\ calls[c].ver = Version(calls[c].path)

\* ------------------------------------------------------- build: bookkeeping
Begin(c, fn, p, allExternal) ==
    [IdleCall EXCEPT !.fn = fn, !.path = p, !.allExternal = allExternal,
                     !.prevs = okRes[<<fn, p>>], !.with = InFlight,
                     !.ver = Version(p), !.verEnd = Version(p)]

Fail(rec, msg) ==
    [rec EXCEPT !.pc = "failed", !.err = msg, !.verEnd = Version(rec.path)]

FailBecause(rec, msg, cause) ==
    [rec EXCEPT !.pc = "failed", !.err = msg, !.cause = cause,
                !.verEnd = Version(rec.path)]

Succeed(rec, out) ==
    [rec EXCEPT !.pc = "ok", !.res = out, !.verEnd = Version(rec.path)]

\* A call returns `out`: the observers learn the path.
Observe(rec, out) ==
    /\ returned' = IF out = NoPath THEN returned ELSE returned \cup {out}
    /\ okRes' = [okRes EXCEPT ![<<rec.fn, rec.path>>] = @ \cup {out}]

Return(c, rec, out) ==
    /\ calls' = [calls EXCEPT ![c] = Succeed(rec, out)]
    /\ Observe(rec, out)

\* A call returns from the cache in the step it started in.
ReturnCached(c, rec, out) ==
    /\ calls' = Started(c, Succeed([rec EXCEPT !.hit = TRUE], out))
    /\ Observe(rec, out)


\* ------------------------------------------------------------- buildScript
\* A cache check that does not look at the mode.
CacheHit_AnyMode(p) == p \in DOMAIN buildCache

\* The production cache check shared by the three build functions.
CacheHit(p) == ~isDev /\ p \in DOMAIN buildCache

\* The two argument checks in the other order.
PathCheck_ExistsFirst(p, notFound) ==
    IF ~Exists(p) THEN notFound
    ELSE IF p = "" THEN "File path is required"
    ELSE ""

\* The synchronous prefix of buildScript and buildStyle: the argument check,
\* the existence check, the cache check.  "" means: go on and build.
PathCheck(p, notFound) ==
    IF p = "" THEN "File path is required"
    ELSE IF ~Exists(p) THEN notFound
    ELSE ""

StartScript(c, p, allExternal) ==
    /\ FreeSlot(c)
    /\ LET rec == Begin(c, "script", p, allExternal)
           bad == PathCheck(p, "Script not found")
       IN  IF bad # ""
           THEN /\ calls' = Started(c, Fail(rec, bad))
                /\ UNCHANGED <<returned, okRes>>
           ELSE IF CacheHit(p)
           THEN ReturnCached(c, rec, buildCache[p].outputPath)
           ELSE /\ calls' = Started(c, [rec EXCEPT !.pc = "pkg"])
                /\ UNCHANGED <<returned, okRes>>
    /\ UNCHANGED <<serveVars, importVars, otherVars>>
    /\ UNCHANGED <<isDev, pkgOk, fs, buildCache, builtAssets, edits>>

\* A buildScript with single-flight: a call that finds another call bundling
\* the same path waits for that bundle instead of invoking the bundler.
ScriptPkg_SingleFlight(c) ==
    /\ calls[c].pc = "pkg"
    /\ calls' = [calls EXCEPT ![c] =
                    IF ~pkgOk THEN Fail(@, "package.json not found")
                    ELSE IF \E d \in Calls \ {c} :
                                /\ calls[d].path = calls[c].path
                                /\ calls[d].pc \in {"bundle", "out", "main"}
                    THEN [@ EXCEPT !.pc = "bundle"]
                    ELSE [@ EXCEPT !.pc = "bundle", !.built = @ + 1]]
    /\ UNCHANGED <<serveVars, importVars, otherVars>>
    /\ UNCHANGED <<isDev, pkgOk, fs, buildCache, builtAssets,
                   edits, returned, okRes>>

\* The import of package.json settles; on success bunBuild is called.
ScriptPkg(c) ==
    /\ calls[c].pc = "pkg"
    /\ calls' = [calls EXCEPT ![c] =
                    IF pkgOk
                    THEN [@ EXCEPT !.pc = "bundle", !.built = @ + 1]
                    ELSE Fail(@, "package.json not found")]
    /\ UNCHANGED <<serveVars, importVars, otherVars>>
    /\ UNCHANGED <<isDev, pkgOk, fs, buildCache, builtAssets,
                   edits, returned, okRes>>

\* bunBuild settles with outputs: the entry point is looked up and the loop
\* over the outputs suspends at its first arrayBuffer().
ScriptBundled(c) ==
    /\ calls[c].pc = "bundle"
    /\ ~BundleFails(fs[calls[c].path])
    /\ LET rec == calls[c]
           outs == BunOutputs(rec.path, fs[rec.path], rec.allExternal, isDev)
           mains == {i \in 1 .. Len(outs) : outs[i].kind = "entry-point"}
       IN  calls' = [calls EXCEPT ![c] =
                IF mains = {}
                THEN Fail([rec EXCEPT !.src = fs[rec.path]],
                          "No entry-point output found")
                ELSE [rec EXCEPT !.pc = "out", !.src = fs[rec.path],
                                 !.outs = outs,
                                 !.main = outs[CHOOSE i \in mains :
                                            \A j \in mains : i <= j].path]]
    /\ UNCHANGED <<serveVars, importVars, otherVars>>
    /\ UNCHANGED <<isDev, pkgOk, fs, buildCache, builtAssets,
                   edits, returned, okRes>>

\* A failing build throws (and the shell fallback is started) or, with a
\* bundler that reports failure in its result, returns no outputs.
ScriptBundleThrows(c) ==
    /\ calls[c].pc = "bundle"
    /\ BundleFails(fs[calls[c].path])
    /\ calls' = [calls EXCEPT ![c] =
                    [@ EXCEPT !.pc = "fallback", !.src = fs[calls[c].path],
                              !.fallbacks = @ + 1]]
    /\ UNCHANGED <<serveVars, importVars, otherVars>>
    /\ UNCHANGED <<isDev, pkgOk, fs, buildCache, builtAssets,
                   edits, returned, okRes>>

\* A build that stores the source map it has before it fails.
ScriptBundleEmpty_Partial(c) ==
    /\ calls[c].pc = "bundle"
    /\ BundleFails(fs[calls[c].path])
    /\ calls' = [calls EXCEPT ![c] =
                    Fail([@ EXCEPT !.src = fs[calls[c].path]],
                         "No entry-point output found")]
    /\ builtAssets' = Put(builtAssets,
                          VPath(BaseName(calls[c].path), <<>>, ".js.map"),
                          [content |-> <<"map">>,
                           contentType |-> "application/json"])
    /\ UNCHANGED <<serveVars, importVars, otherVars>>
    /\ UNCHANGED <<isDev, pkgOk, fs, buildCache, edits, returned, okRes>>

ScriptBundleEmpty(c) ==
    /\ calls[c].pc = "bundle"
    /\ BundleFails(fs[calls[c].path])
    /\ calls' = [calls EXCEPT ![c] =
                    Fail([@ EXCEPT !.src = fs[calls[c].path]],
                         "No entry-point output found")]
    /\ UNCHANGED <<serveVars, importVars, otherVars>>
    /\ UNCHANGED <<isDev, pkgOk, fs, buildCache, builtAssets,
                   edits, returned, okRes>>

\* A fallback whose own failure is dropped.
FallbackCause_Primary(fallbackOk) == "primary"

\* Which error the fallback leaves buildScript with.
FallbackCause(fallbackOk) == IF fallbackOk THEN "primary" ELSE "fallback"

ScriptFallback(c, fallbackOk) ==
    /\ calls[c].pc = "fallback"
    /\ calls' = [calls EXCEPT ![c] =
                    FailBecause([@ EXCEPT !.fallbackOk = fallbackOk],
                                "Build failed", FallbackCause(fallbackOk))]
    /\ UNCHANGED <<serveVars, importVars, otherVars>>
    /\ UNCHANGED <<isDev, pkgOk, fs, buildCache, builtAssets,
                   edits, returned, okRes>>

\* One turn of the loop over result.outputs: the awaited bytes are stored.
\* After the last output the bytes of the entry point are awaited once more.
ScriptOutput(c) ==
    /\ calls[c].pc = "out"
    /\ LET rec == calls[c]
           o == Head(rec.outs)
       IN  /\ builtAssets' = Put(builtAssets, o.path,
                                 [content |-> o.bytes, contentType |-> o.type])
           /\ calls' = [calls EXCEPT ![c] =
                    [rec EXCEPT !.outs = Tail(rec.outs),
                                !.pc = IF Len(rec.outs) = 1 THEN "main"
                                       ELSE "out"]]
    /\ UNCHANGED <<serveVars, importVars, otherVars>>
    /\ UNCHANGED <<isDev, pkgOk, fs, buildCache, edits, returned, okRes>>

ScriptMain(c) ==
    /\ calls[c].pc = "main"
    /\ LET rec == calls[c]
       IN  /\ buildCache' = Put(buildCache, rec.path,
                    [outputPath |-> rec.main,
                     content |-> JsBytes(rec.src, rec.allExternal, isDev)])
           /\ Return(c, rec, rec.main)
    /\ UNCHANGED <<serveVars, importVars, otherVars>>
    /\ UNCHANGED <<isDev, pkgOk, fs, builtAssets, edits>>

\* -------------------------------------------------------------- buildStyle
StartStyle(c, p) ==
    /\ FreeSlot(c)
    /\ LET rec == Begin(c, "style", p, FALSE)
           bad == PathCheck(p, "Style not found")
       IN  IF bad # ""
           THEN /\ calls' = Started(c, Fail(rec, bad))
                /\ UNCHANGED <<returned, okRes>>
           ELSE IF CacheHit(p)
           THEN ReturnCached(c, rec, buildCache[p].outputPath)
           ELSE /\ calls' = Started(c, [rec EXCEPT !.pc = "read"])
                /\ UNCHANGED <<returned, okRes>>
    /\ UNCHANGED <<serveVars, importVars, otherVars>>
    /\ UNCHANGED <<isDev, pkgOk, fs, buildCache, builtAssets, edits>>

\* Bun.file(absolutePath).text() settles; postcss is started on the text.
StyleRead(c) ==
    /\ calls[c].fn = "style"
    /\ calls[c].pc = "read"
    /\ calls' = [calls EXCEPT ![c] =
                    [@ EXCEPT !.pc = "postcss", !.src = fs[calls[c].path],
                              !.built = @ + 1]]
    /\ UNCHANGED <<serveVars, importVars, otherVars>>
    /\ UNCHANGED <<isDev, pkgOk, fs, buildCache, builtAssets,
                   edits, returned, okRes>>

\* What buildStyle stores for the CSS `css` of source p with content c.
StyleOutputPath(p, css) == VPath(BaseName(p), css, ".css")

StyleMapPath(p, css) == VPath(BaseName(p), css, ".css.map")

StyleFinalCss(p, css) ==
    IF isDev
    THEN css \o <<"/*# sourceMappingURL=", BaseName(p)>> \o Hash(css)
             \o <<".css.map */">>
    ELSE css

\* A buildStyle that starts the served-asset map afresh.
StyleAssets_Evict(assets, p, c, css) ==
    Put(EmptyMap, StyleOutputPath(p, css),
        [content |-> StyleFinalCss(p, css), contentType |-> "text/css"])

StyleAssets(assets, p, c, css) ==
    LET withMap == IF isDev
                   THEN Put(assets, StyleMapPath(p, css),
                            [content |-> PostCssMap(p, c),
                             contentType |-> "application/json"])
                   ELSE assets
    IN  Put(withMap, StyleOutputPath(p, css),
            [content |-> StyleFinalCss(p, css), contentType |-> "text/css"])

\* postcss settles: it throws, or gives empty CSS, or the result is stored.
StylePostcss(c) ==
    /\ calls[c].pc = "postcss"
    /\ LET rec == calls[c]
           css == PostCssCss(rec.src)
       IN  IF PostCssFails(rec.src)
           THEN /\ calls' = [calls EXCEPT ![c] = Fail(rec, "CssSyntaxError")]
                /\ UNCHANGED <<buildCache, builtAssets, returned, okRes>>
           ELSE IF css = <<>>
           THEN /\ calls' = [calls EXCEPT ![c] =
                        Fail(rec, "PostCSS processing returned empty CSS")]
                /\ UNCHANGED <<buildCache, builtAssets, returned, okRes>>
           ELSE /\ buildCache' = Put(buildCache, rec.path,
                        [outputPath |-> StyleOutputPath(rec.path, css),
                         content |-> StyleFinalCss(rec.path, css)])
                /\ builtAssets' = StyleAssets(builtAssets, rec.path, rec.src, css)
                /\ Return(c, rec, StyleOutputPath(rec.path, css))
    /\ UNCHANGED <<serveVars, importVars, otherVars>>
    /\ UNCHANGED <<isDev, pkgOk, fs, edits>>

\* -------------------------------------------------------------- buildAsset
StartAsset(c, f) ==
    /\ FreeSlot(c)
    /\ LET p == IF f = NoFile THEN "" ELSE f
           rec == Begin(c, "asset", p, FALSE)
       IN  IF f = NoFile
           THEN /\ calls' = Started(c, Succeed(rec, NoPath))
                /\ Observe(rec, NoPath)
           ELSE IF p = ""
           THEN /\ calls' = Started(c,
                        Fail(rec, "BunFile object must have a name property"))
                /\ UNCHANGED <<returned, okRes>>
           ELSE /\ calls' = Started(c, [rec EXCEPT !.pc = "exists"])
                /\ UNCHANGED <<returned, okRes>>
    /\ UNCHANGED <<serveVars, importVars, otherVars>>
    /\ UNCHANGED <<isDev, pkgOk, fs, buildCache, builtAssets, edits>>

\* file.exists() settles; then the cache check; then the read is started.
AssetExists(c) ==
    /\ calls[c].pc = "exists"
    /\ LET rec == calls[c]
       IN  IF ~Exists(rec.path)
           THEN /\ calls' = [calls EXCEPT ![c] = Fail(rec, "Asset not found")]
                /\ UNCHANGED <<returned, okRes>>
           ELSE IF CacheHit(rec.path)
           THEN Return(c, [rec EXCEPT !.hit = TRUE],
                       buildCache[rec.path].outputPath)
           ELSE /\ calls' = [calls EXCEPT ![c] =
                        [rec EXCEPT !.pc = "read", !.built = @ + 1]]
                /\ UNCHANGED <<returned, okRes>>
    /\ UNCHANGED <<serveVars, importVars, otherVars>>
    /\ UNCHANGED <<isDev, pkgOk, fs, buildCache, builtAssets,
                   edits>>

AssetOutputPath(p, bytes) == VPath(BaseName(p), bytes, ExtName(p))

\* file.arrayBuffer() settles: the bytes are fingerprinted and stored.
AssetRead(c) ==
    /\ calls[c].fn = "asset"
    /\ calls[c].pc = "read"
    /\ LET rec == [calls[c] EXCEPT !.src = fs[calls[c].path]]
           bytes == <<rec.src>>
           out == AssetOutputPath(rec.path, bytes)
       IN  /\ buildCache' = Put(buildCache, rec.path,
                                [outputPath |-> out, content |-> bytes])
           /\ builtAssets' = Put(builtAssets, out,
                                 [content |-> bytes,
                                  contentType |-> getContentType(ExtName(rec.path))])
           /\ Return(c, rec, out)
    /\ UNCHANGED <<serveVars, importVars, otherVars>>
    /\ UNCHANGED <<isDev, pkgOk, fs, edits>>

\* ------------------------------------------------------------- environment
\* A source file is rewritten on disk.
EditSource(p, c) ==
    /\ TotalEdits < MaxEdits
    /\ Exists(p)
    /\ fs[p] # c
    /\ fs' = [fs EXCEPT ![p] = c]
    /\ edits' = [edits EXCEPT ![p] = @ + 1]
    /\ UNCHANGED <<serveVars, importVars, otherVars>>
    /\ UNCHANGED <<isDev, pkgOk, buildCache, builtAssets, calls, returned,
                   okRes>>

\* ------------------------------------------------------------------- serve
Reqs == DOMAIN reqs

\* The X-Request-ID header of an incoming request: absent, or the client's.
NoId == ""
ClientIds == {"custom-123"}

\* generateRequestId(): the random draws.
GenIds == {"k3j9x2ab", "p0q8w7er"}

RootPath == <<"/", <<>>, "">>

\* new URL(req.url).pathname percent-encodes what a URL path cannot hold.
PctEncode(name) == IF name = "my logo" THEN "my%20logo" ELSE name

UrlPathname(target) == <<PctEncode(target[1]), target[2], target[3]>>

NoEntry == [content |-> <<>>, contentType |-> ""]

NoResponse == [status |-> 0, statusText |-> "", headers |-> EmptyMap,
               body |-> <<>>, stream |-> FALSE]

IdleReq ==
    [pc |-> "idle", target |-> NoPath, path |-> NoPath, incoming |-> NoId,
     rid |-> NoId, genCalls |-> 0, wasKey |-> FALSE, wasReturned |-> FALSE, snap |-> NoEntry,
     handlerCalls |-> 0, outcome |-> "", errorCalls |-> 0, thrown |-> "",
     status |-> 0, statusText |-> "", headers |-> EmptyMap, body |-> <<>>,
     handed |-> NoResponse, given |-> "", chunks |-> <<>>,
     produced |-> 0, pending |-> <<>>,
     iterations |-> 0, closes |-> 0, logged |-> 0, ended |-> ""]

\* Requests are numbered in the order they arrive.
FreeReq(r) ==
    /\ reqs[r].pc = "idle"
    /\ \A q \in Reqs : q < r => reqs[q].pc # "idle"

\* TextEncoder.encode on a string of UTF-16 code units: "H" is a high and "L"
\* a low surrogate; a pair becomes the four bytes "P" of its code point, a
\* surrogate without its partner the three bytes "R" of U+FFFD.
RECURSIVE Encode(_)
Encode(str) ==
    IF str = <<>> THEN <<>>
    ELSE IF Len(str) >= 2 /\ str[1] = "H" /\ str[2] = "L"
    THEN <<"P">> \o Encode(SubSeq(str, 3, Len(str)))
    ELSE IF str[1] \in {"H", "L"} THEN <<"R">> \o Encode(Tail(str))
    ELSE <<str[1]>> \o Encode(Tail(str))

\* The text a client reads from a UTF-8 body; "R" is the code unit U+FFFD.
RECURSIVE Decode(_)
Decode(bytes) ==
    IF bytes = <<>> THEN <<>>
    ELSE IF bytes[1] = "P" THEN <<"H", "L">> \o Decode(Tail(bytes))
    ELSE <<bytes[1]>> \o Decode(Tail(bytes))

\* What a handler's stream yields.
ChunkSet == {<<"a">>, <<"b">>, <<"H">>, <<"L">>, <<"H", "L">>}

\* What the measured function makes of a request: a response, or an error.
Thrown(msg) == [thrown |-> TRUE, msg |-> msg, resp |-> NoResponse]

Responded(resp) == [thrown |-> FALSE, msg |-> "", resp |-> resp]

\* measure() logs and rethrows the error of the function it runs.
Measure_Swallow(result) ==
    IF result.thrown THEN Responded(NoResponse) ELSE result

Measure(result) == result

\* What handlers do.
ErrorMessages == {"Test error", ""}

HandlerResponses ==
    {[status |-> 201, statusText |-> "Created",
      headers |-> Put(EmptyMap, "X-Custom", "Header"),
      body |-> <<"Custom Response">>, stream |-> FALSE],
     [status |-> 404, statusText |-> "",
      headers |-> Put(Put(EmptyMap, "X-Request-ID", "mine"),
                      "Content-Type", "text/plain;charset=UTF-8"),
      body |-> <<"gone">>, stream |-> FALSE]}

Values == {"object", "null", "undefined", "circular"}

Outcome(kind, text, response) ==
    [kind |-> kind, text |-> text, response |-> response]

SimpleOutcomes == {Outcome("string", "Not found", NoResponse)}

HandlerOutcomes ==
    {Outcome("throw", m, NoResponse) : m \in ErrorMessages}
    \cup {Outcome("string", t, NoResponse) : t \in {"<h1>Hello World</h1>", ""}}
    \cup {Outcome("response", "", x) : x \in HandlerResponses}
    \cup {Outcome("value", v, NoResponse) : v \in Values}
    \cup {Outcome("stream", "", NoResponse)}

Header(name, value) == Put(EmptyMap, name, value)

\* The `if (builtAssets[pathname])` of fetch: no handler is asked.
AssetMatch_Never(pathname) == FALSE

AssetMatch(pathname) == pathname \in DOMAIN builtAssets

AssetResponse(pathname) ==
    [status |-> 200, statusText |-> "",
     headers |-> Put(Header("Content-Type", builtAssets[pathname].contentType),
                     "Cache-Control",
                     IF serveIsDev THEN "no-cache"
                     ELSE "public, max-age=31536000, immutable"),
     body |-> builtAssets[pathname].content,
     stream |-> FALSE]

\* JSON.stringify of what the handler returned.
JsonFails(v) == v = "circular"

JsonText(v) ==
    CASE v = "object" -> <<"{\"message\":\"Hello\",\"count\":42}">>
      [] v = "null" -> <<"null">>
      [] OTHER -> <<>>

\* A string branch that sends plain text.
HtmlHeaders_Plain(rid) ==
    Put(Header("Content-Type", "text/plain"), "X-Request-ID", rid)

HtmlHeaders(rid) ==
    Put(Header("Content-Type", "text/html; charset=utf-8"),
        "X-Request-ID", rid)

\* new Response(body, init) without a status: 200, no status text.
NewResponse(headers, body, stream) ==
    [status |-> 200, statusText |-> "", headers |-> headers, body |-> body,
     stream |-> stream]

\* A Response branch that keeps the body and the headers only.
Passthrough_BodyOnly(response, rid) ==
    NewResponse(Put(response.headers, "X-Request-ID", rid), response.body,
                FALSE)

\* The Response branch of fetch: a new Response around the body of the
\* handler's, with its status, status text and a copy of its headers in
\* which X-Request-ID is set.
Passthrough(response, rid) ==
    [status |-> response.status, statusText |-> response.statusText,
     headers |-> Put(response.headers, "X-Request-ID", rid),
     body |-> response.body, stream |-> FALSE]

\* The measured function from the handler's outcome on.
Inner(rid, out) ==
    CASE out.kind = "throw" -> Thrown(out.text)
      [] out.kind = "stream" ->
            Responded(NewResponse(Put(HtmlHeaders(rid),
                                      "Transfer-Encoding", "chunked"),
                                  <<>>, TRUE))
      [] out.kind = "response" ->
            Responded(Passthrough(out.response, rid))
      [] out.kind = "string" ->
            Responded(NewResponse(HtmlHeaders(rid), <<out.text>>, FALSE))
      [] OTHER ->
            IF JsonFails(out.text)
            THEN Thrown("JSON.stringify cannot serialize cyclic structures")
            ELSE Responded(NewResponse(Header("Content-Type",
                                              "application/json"),
                                       JsonText(out.text), FALSE))

\* The error handler of the server.
ErrorPage(msg) ==
    <<"<h1>Server Error</h1>", "Error:", msg, "Stack Trace:", "stack",
      "Full Error Object:", "details">>

ErrorResponse(msg) ==
    [status |-> 500, statusText |-> "",
     headers |-> Put(Header("Content-Type", "text/html"),
                     "Cache-Control", "no-store"),
     body |-> IF serveIsDev THEN ErrorPage(msg)
              ELSE <<"Internal Server Error">>,
     stream |-> FALSE]

Respond(rec, resp) ==
    [rec EXCEPT !.pc = IF resp.stream THEN "stream" ELSE "done",
                !.status = resp.status, !.statusText = resp.statusText,
                !.headers = resp.headers,
                !.body = resp.body,
                !.iterations = IF resp.stream THEN 1 ELSE 0]

\* A request arrives: the request id, the asset lookup, the call of the
\* handler.
Fetch(r, target, incoming, generated) ==
    /\ FreeReq(r)
    /\ LET pathname == UrlPathname(target)
           isKey == pathname \in DOMAIN builtAssets
           rec == [IdleReq EXCEPT
                      !.target = target, !.path = pathname,
                      !.incoming = incoming,
                      !.rid = IF incoming = NoId THEN generated
                              ELSE incoming,
                      !.genCalls = IF incoming = NoId THEN 1 ELSE 0,
                      !.wasKey = isKey,
                      !.wasReturned = pathname \in returned,
                      !.snap = IF isKey THEN builtAssets[pathname]
                               ELSE NoEntry]
       IN  reqs' = [reqs EXCEPT ![r] =
                IF AssetMatch(pathname)
                THEN Respond(rec, AssetResponse(pathname))
                ELSE [rec EXCEPT !.pc = "handler", !.handlerCalls = 1]]
    /\ UNCHANGED <<serveIsDev, buildVars, importVars, otherVars>>

\* The handler settles; fetch returns a response, or throws and the error
\* handler answers.
HandlerSettle(r, out) ==
    /\ reqs[r].pc = "handler"
    /\ LET rec == [reqs[r] EXCEPT
                      !.outcome = out.kind, !.handed = out.response,
                      !.given = out.text,
                      !.thrown = IF out.kind = "throw" THEN out.text ELSE ""]
           res == Measure(Inner(rec.rid, out))
       IN  reqs' = [reqs EXCEPT ![r] =
                IF res.thrown
                THEN Respond([rec EXCEPT !.errorCalls = @ + 1],
                             ErrorResponse(res.msg))
                ELSE Respond(rec, res.resp)]
    /\ UNCHANGED <<serveIsDev, buildVars, importVars, otherVars>>

\* A stream that collects what the producer yields before it enqueues.
StreamYield_Buffered(r, chunk) ==
    /\ reqs[r].pc = "stream"
    /\ reqs[r].produced < MaxChunks
    /\ reqs' = [reqs EXCEPT ![r] =
                   [@ EXCEPT !.pending = Append(@, chunk),
                             !.produced = @ + 1]]
    /\ UNCHANGED <<serveIsDev, buildVars, importVars, otherVars>>

\* The producer of a streamed response, resumed by the loop, yields a chunk.
StreamYield(r, chunk) ==
    /\ reqs[r].pc = "stream"
    /\ reqs[r].pending = <<>>
    /\ reqs[r].produced < MaxChunks
    /\ reqs' = [reqs EXCEPT ![r] =
                   [@ EXCEPT !.pending = <<chunk>>, !.produced = @ + 1]]
    /\ UNCHANGED <<serveIsDev, buildVars, importVars, otherVars>>

\* The body of the loop: the chunk is encoded and enqueued, and the producer
\* is resumed.
StreamEnqueue(r) ==
    /\ reqs[r].pc = "stream"
    /\ reqs[r].pending # <<>>
    /\ reqs' = [reqs EXCEPT ![r] =
                   [@ EXCEPT !.chunks = Append(@, Head(reqs[r].pending)),
                             !.body = @ \o Encode(Head(reqs[r].pending)),
                             !.pending = Tail(@)]]
    /\ UNCHANGED <<serveIsDev, buildVars, importVars, otherVars>>

\* The producer returns: the stream is closed.
StreamReturn(r) ==
    /\ reqs[r].pc = "stream"
    /\ reqs[r].pending = <<>>
    /\ reqs' = [reqs EXCEPT ![r] =
                   [@ EXCEPT !.pc = "done", !.ended = "return",
                             !.closes = @ + 1]]
    /\ UNCHANGED <<serveIsDev, buildVars, importVars, otherVars>>

\* A producer whose error goes to the error handler of the server.
StreamThrow_ErrorPage(r) ==
    /\ reqs[r].pc = "stream"
    /\ reqs[r].pending = <<>>
    /\ reqs' = [reqs EXCEPT ![r] =
                   Respond([@ EXCEPT !.ended = "throw", !.closes = @ + 1,
                                     !.errorCalls = @ + 1],
                           ErrorResponse("Stream error"))]
    /\ UNCHANGED <<serveIsDev, buildVars, importVars, otherVars>>

\* The producer throws: the error is logged and the stream is closed.
StreamThrow(r) ==
    /\ reqs[r].pc = "stream"
    /\ reqs[r].pending = <<>>
    /\ reqs' = [reqs EXCEPT ![r] =
                   [@ EXCEPT !.pc = "done", !.ended = "throw",
                             !.logged = @ + 1, !.closes = @ + 1]]
    /\ UNCHANGED <<serveIsDev, buildVars, importVars, otherVars>>

\* ------------------------------------------------------------------ imports
\* Package names and import specifiers are the sequences of their segments
\* between '/' (what split('/') gives); version strings and URLs are
\* sequences of tokens, so that a prefix of the string is a prefix of the
\* sequence.
MaxSubpaths == 2

Undefined == <<"<undefined>">>

\* A dependency value that is not a string (a number or an object).
NonString == <<"<object>">>

\* The names that start with '@'.
Scopes == {"@scope"}

SubpathSet == {<<"react-dom", "client">>, <<"react", "jsx-runtime">>,
               <<"@scope", "name", "sub">>, <<"lodash", "fp">>,
               <<"react-dom">>, <<"react-dom", "">>}

SubpathLists ==
    UNION {[1 .. n -> SubpathSet] : n \in 0 .. MaxSubpaths}

Dependency(n, v) == [name |-> n, spec |-> v]

\* The dependencies of a package.json, in the order they are written.
Manifests ==
    { <<>>,
      <<Dependency(<<"react">>, <<"^", "18.2.0">>),
        Dependency(<<"react-dom">>, <<"^", "18.2.0">>)>>,
      <<Dependency(<<"@scope", "name">>, <<"~", "4.0.0">>),
        Dependency(<<"react">>, <<"18.2.0">>)>>,
      <<Dependency(<<"react">>, <<"^">>),
        Dependency(<<"react-dom">>, <<"~", "^", "1.0.0">>)>>,
      <<Dependency(<<"react-dom">>, NonString),
        Dependency(<<"react">>, <<"^", "18.2.0">>)>> }

Peer(n, o) == [peer |-> n, optional |-> o]

\* The packages of a bun.lock: name -> peer dependencies of its metadata.
LockFiles ==
    { (<<"react-dom">> :> <<Peer(<<"react">>, FALSE)>>),
      (<<"react-dom">> :> <<Peer(<<"react">>, TRUE),
                            Peer(<<"lodash">>, FALSE)>>)
        @@ (<<"@scope", "name">> :> <<Peer(<<"react">>, FALSE)>>) }

NullJson == [null |-> TRUE, dependencies |-> <<>>]

PackageJson(m) == [null |-> FALSE, dependencies |-> m]

NullLock == [null |-> TRUE, packages |-> EmptyMap]

BunLock(l) == [null |-> FALSE, packages |-> l]

RECURSIVE JoinWith(_, _)
JoinWith(parts, sep) ==
    IF parts = <<>> THEN <<>>
    ELSE IF Len(parts) = 1 THEN parts[1]
    ELSE parts[1] \o <<sep>> \o JoinWith(Tail(parts), sep)

\* segments.join('/')
Join(segs) == JoinWith([i \in 1 .. Len(segs) |-> <<segs[i]>>], "/")

\* Whether a joined string is the empty string.
EmptyString(segs) == Join(segs) \in {<<>>, <<"">>}

\* dependencies[name]
RECURSIVE Lookup(_, _)
Lookup(deps, n) ==
    IF deps = <<>> THEN Undefined
    ELSE IF deps[Len(deps)].name = n THEN deps[Len(deps)].spec
    ELSE Lookup(SubSeq(deps, 1, Len(deps) - 1), n)

Truthy(v) == v \notin {Undefined, <<>>}

getCleanVersion(version) ==
    IF version # <<>> /\ Head(version) \in {"^", "~"} THEN Tail(version)
    ELSE version

PeerDeps_Optional(bunLock, deps, n) ==
    IF n \notin DOMAIN bunLock.packages THEN <<>>
    ELSE LET kept == SelectSeq(bunLock.packages[n],
                         LAMBDA e : Truthy(Lookup(deps, e.peer)))
         IN  [i \in 1 .. Len(kept) |-> kept[i].peer]

\* The peer dependencies the lock file lists for a package that are not
\* optional and are dependencies of the manifest.
PeerDeps(bunLock, deps, n) ==
    IF n \notin DOMAIN bunLock.packages THEN <<>>
    ELSE LET kept == SelectSeq(bunLock.packages[n],
                         LAMBDA e : ~e.optional /\ Truthy(Lookup(deps, e.peer)))
         IN  [i \in 1 .. Len(kept) |-> kept[i].peer]

ImportConfig(k, n, v, d, b, s) ==
    [key |-> k, name |-> n, version |-> v, deps |-> d, baseName |-> b,
     subpath |-> s]

\* imports[key] = config: a key that is already there keeps its place.
Assign(configs, config) ==
    IF \E i \in 1 .. Len(configs) : configs[i].key = config.key
    THEN [i \in 1 .. Len(configs) |->
             IF configs[i].key = config.key THEN config ELSE configs[i]]
    ELSE Append(configs, config)

RECURSIVE TopLevel(_, _, _, _)
TopLevel(configs, todo, deps, bunLock) ==
    IF todo = <<>> THEN configs
    ELSE LET d == Head(todo)
         IN  TopLevel(IF d.spec = NonString THEN configs
                      ELSE Assign(configs,
                               ImportConfig(d.name, d.name,
                                   getCleanVersion(d.spec),
                                   PeerDeps(bunLock, deps, d.name),
                                   <<>>, <<>>)),
                      Tail(todo), deps, bunLock)

\* const [baseName, ...subpathParts] = subpath.split('/')
SubpathBase(subpath) == <<subpath[1]>>

SubpathParts(subpath) ==
    SubSeq(subpath, Len(SubpathBase(subpath)) + 1, Len(subpath))

Skipped_Never(deps, subpath) == FALSE

Skipped(deps, subpath) == ~Truthy(Lookup(deps, SubpathBase(subpath)))

\* getCleanVersion of a value that has no replace method.
SubpathThrows(deps, subpaths) ==
    \E i \in 1 .. Len(subpaths) :
        Lookup(deps, SubpathBase(subpaths[i])) = NonString

RECURSIVE Subpaths(_, _, _, _)
Subpaths(configs, todo, deps, bunLock) ==
    IF todo = <<>> THEN configs
    ELSE LET s == Head(todo)
             b == SubpathBase(s)
         IN  Subpaths(IF Skipped(deps, s) THEN configs
                      ELSE Assign(configs,
                               ImportConfig(s, s,
                                   getCleanVersion(Lookup(deps, b)),
                                   PeerDeps(bunLock, deps, b),
                                   b, SubpathParts(s))),
                      Tail(todo), deps, bunLock)

\* The two-segment base of a scoped name, the first segment of any other.
NameBase(n) ==
    IF n[1] \in Scopes
    THEN SubSeq(n, 1, IF Len(n) < 2 THEN Len(n) ELSE 2)
    ELSE <<n[1]>>

ConfigBase(config) ==
    IF ~EmptyString(config.baseName) THEN config.baseName
    ELSE NameBase(config.name)

\* First pass: the versions specified for base packages.
RECURSIVE VersionMap(_, _)
VersionMap(versionMap, todo) ==
    IF todo = <<>> THEN versionMap
    ELSE LET c == Head(todo)
             b == ConfigBase(c)
         IN  VersionMap(IF b \notin DOMAIN versionMap \/ versionMap[b] = <<>>
                           \/ c.version # <<>>
                        THEN Put(versionMap, b, c.version)
                        ELSE versionMap,
                        Tail(todo))

VersionOf(versionMap, b) ==
    IF b \in DOMAIN versionMap /\ versionMap[b] # <<>> THEN versionMap[b]
    ELSE <<"latest">>

DepVersion_Latest(versionMap, depName) == <<"latest">>

DepVersion(versionMap, depName) == VersionOf(versionMap, NameBase(depName))

Url(config, versionMap) ==
    LET b == ConfigBase(config)
        version == VersionOf(versionMap, b)
    IN  IF ~EmptyString(config.subpath)
        THEN <<"https://esm.sh/">> \o Join(b) \o <<"@">> \o version
                 \o <<"/">> \o Join(config.subpath)
        ELSE <<"https://esm.sh/">> \o Join(config.name) \o <<"@">>
                 \o version

DepsPart(config, versionMap) ==
    <<"deps=">>
      \o JoinWith([i \in 1 .. Len(config.deps) |->
                      Join(config.deps[i]) \o <<"@">>
                        \o DepVersion(versionMap, config.deps[i])], ",")

QueryParts_Production(config, versionMap, dev) ==
    IF config.deps # <<>> THEN <<DepsPart(config, versionMap)>> ELSE <<>>

QueryParts(config, versionMap, dev) ==
    (IF config.deps # <<>> THEN <<DepsPart(config, versionMap)>> ELSE <<>>)
      \o (IF dev THEN << <<"dev">> >> ELSE <<>>)

Query(config, versionMap, dev) ==
    LET queryParts == QueryParts(config, versionMap, dev)
    IN  IF queryParts # <<>> THEN <<"?">> \o JoinWith(queryParts, "&")
        ELSE <<>>

\* query.replace(/^\?/, '&')
SubQuery(query) ==
    IF query # <<>> THEN <<"&">> \o Tail(query) ELSE <<>>

\* key.endsWith('/')
EndsWithSlash(key) == key # <<>> /\ key[Len(key)] = ""

\* Second pass: the entries of the import map, later ones overwriting.
RECURSIVE Entries(_, _, _, _)
Entries(map, todo, versionMap, dev) ==
    IF todo = <<>> THEN map
    ELSE LET c == Head(todo)
             url == Url(c, versionMap)
             query == Query(c, versionMap, dev)
             one == Put(map, c.key, url \o query)
         IN  Entries(IF EndsWithSlash(c.key) THEN one
                     ELSE Put(one, Append(c.key, ""),
                              url \o SubQuery(query) \o <<"/">>),
                     Tail(todo), versionMap, dev)

Configs(subpaths, deps, bunLock) ==
    Subpaths(TopLevel(<<>>, deps, deps, bunLock), subpaths, deps, bunLock)

GenerateImportMap(subpaths, deps, bunLock, dev) ==
    LET configs == Configs(subpaths, deps, bunLock)
    IN  Entries(EmptyMap, configs, VersionMap(EmptyMap, configs), dev)

IdleImport ==
    [pc |-> "idle", subpaths |-> <<>>, pkgJson |-> NullJson,
     lockFile |-> NullLock, packageJson |-> NullJson, bunLock |-> NullLock,
     imports |-> EmptyMap, skipped |-> <<>>]

NoImports == importCall = IdleImport

AfterPackage(call) == IF call.bunLock.null THEN "lock" ELSE "generate"

\* imports(subpaths, pkgJson, lockFile) is called.
ImportsCall(subpaths, pkgJson, lockFile) ==
    /\ importCall.pc = "idle"
    /\ importCall' =
           LET call == [importCall EXCEPT
                            !.subpaths = subpaths, !.pkgJson = pkgJson,
                            !.lockFile = lockFile, !.packageJson = pkgJson,
                            !.bunLock = lockFile]
           IN  [call EXCEPT !.pc = IF pkgJson.null THEN "package"
                                   ELSE AfterPackage(call)]
    /\ UNCHANGED <<buildVars, serveVars, otherVars>>

\* package.json is imported from the working directory.
PackageLoaded(m) ==
    /\ importCall.pc = "package"
    /\ importCall' = [importCall EXCEPT !.packageJson = PackageJson(m),
                                        !.pc = AfterPackage(importCall)]
    /\ UNCHANGED <<buildVars, serveVars, otherVars>>

PackageMissing_Throws ==
    /\ importCall.pc = "package"
    /\ importCall' = [importCall EXCEPT !.pc = "thrown"]
    /\ UNCHANGED <<buildVars, serveVars, otherVars>>

\* The import of package.json fails: the empty import map is returned.
PackageMissing ==
    /\ importCall.pc = "package"
    /\ importCall' = [importCall EXCEPT !.pc = "done", !.imports = EmptyMap]
    /\ UNCHANGED <<buildVars, serveVars, otherVars>>

\* bun.lock is imported from the working directory.
LockLoaded(l) ==
    /\ importCall.pc = "lock"
    /\ importCall' = [importCall EXCEPT !.bunLock = BunLock(l),
                                        !.pc = "generate"]
    /\ UNCHANGED <<buildVars, serveVars, otherVars>>

\* The import of bun.lock fails: the call goes on without a lock file.
LockMissing ==
    /\ importCall.pc = "lock"
    /\ importCall' = [importCall EXCEPT !.pc = "generate"]
    /\ UNCHANGED <<buildVars, serveVars, otherVars>>

\* The import map is generated from the dependencies and the subpaths.
Generate ==
    /\ importCall.pc = "generate"
    /\ LET deps == importCall.packageJson.dependencies
           subpaths == importCall.subpaths
       IN  importCall' =
               IF SubpathThrows(deps, subpaths)
               THEN [importCall EXCEPT !.pc = "thrown"]
               ELSE [importCall EXCEPT
                        !.pc = "done",
                        !.skipped = SelectSeq(subpaths,
                                        LAMBDA s : Skipped(deps, s)),
                        !.imports = GenerateImportMap(subpaths, deps,
                                        importCall.bunLock, isDev)]
    /\ UNCHANGED <<buildVars, serveVars, otherVars>>

\* ------------------------------------------------------------ MCP endpoint
\* The JSON-RPC endpoint of examples/react-ssr: one POST, its messages and
\* the reply.
MaxMessages == 2

AbsentId == "<no id>"

NullId == "<null>"

Ids == {"id1", "id2"}

Methods == {"tools/list", "tools/call", "prompts/get",
            "notifications/initialized", "bogus/method"}

\* Tools and prompts the server was configured with: name -> enabled.
toolMap == ("echo" :> TRUE) @@ ("off" :> FALSE)

promptMap == ("greet" :> TRUE) @@ ("old" :> FALSE)

Params(p, n, a) == [present |-> p, name |-> n, hasArguments |-> a]

NoParams == Params(FALSE, "", FALSE)

ParamsOf(method) ==
    IF method = "tools/call"
    THEN {NoParams, Params(TRUE, "", TRUE), Params(TRUE, "echo", FALSE),
          Params(TRUE, "nope", TRUE), Params(TRUE, "off", TRUE),
          Params(TRUE, "echo", TRUE)}
    ELSE IF method = "prompts/get"
    THEN {Params(TRUE, "greet", FALSE), Params(TRUE, "old", TRUE),
          Params(TRUE, "greet", TRUE)}
    ELSE {NoParams}

Message(v, i, m, p) == [jsonrpc |-> v, id |-> i, method |-> m, params |-> p]

\* An element of the body that is not a JSON-RPC 2.0 message with a method.
Garbage == Message(FALSE, "id1", "tools/list", NoParams)

MessageSet ==
    {Garbage} \cup
    UNION {{Message(TRUE, i, m, p) :
               i \in {AbsentId, NullId} \cup Ids, p \in ParamsOf(m)} :
           m \in Methods}

\* A body is one message or an array of messages.
Body(a, ms) == [isArray |-> a, messages |-> ms]

Bodies ==
    {Body(FALSE, <<msg>>) : msg \in MessageSet} \cup
    {Body(TRUE, ms) :
        ms \in UNION {[1 .. n -> MessageSet] : n \in 0 .. MaxMessages}}

\* typeof msg === 'object' && msg.jsonrpc === '2.0' && 'method' in msg
ValidMessage(msg) == msg.jsonrpc

isRequest(msg) == msg.jsonrpc /\ msg.id \notin {AbsentId, NullId}

isNotification(msg) == msg.jsonrpc /\ msg.id = AbsentId

MethodNotFound_Internal == -32603

MethodNotFound == -32601

InvalidParams == -32602

InternalError == -32603

\* What processMessage does with the method and the parameters: produce a
\* result, throw an error code, or invoke a callback.
Dispatch(msg) ==
    LET p == msg.params
        lacks == ~p.present \/ p.name = "" \/ ~p.hasArguments
        entry(map) ==
            IF lacks THEN [kind |-> "throw", code |-> InvalidParams]
            ELSE IF p.name \notin DOMAIN map
            THEN [kind |-> "throw", code |-> InvalidParams]
            ELSE IF ~map[p.name]
            THEN [kind |-> "throw", code |-> InvalidParams]
            ELSE [kind |-> "callback", code |-> 0]
    IN  IF msg.method = "tools/list" THEN [kind |-> "result", code |-> 0]
        ELSE IF msg.method = "tools/call" THEN entry(toolMap)
        ELSE IF msg.method = "prompts/get" THEN entry(promptMap)
        ELSE IF msg.method = "notifications/initialized"
        THEN IF isNotification(msg) THEN [kind |-> "null", code |-> 0]
             ELSE [kind |-> "result", code |-> 0]
        ELSE [kind |-> "throw", code |-> MethodNotFound]

\* The envelope processMessage returns for a message that has an id; of is
\* the place of the message among the valid messages of the body.
Success(msg, n) ==
    [of |-> n, id |-> msg.id, kind |-> "result", code |-> 0]

Failure(msg, n, c) ==
    [of |-> n, id |-> msg.id, kind |-> "error", code |-> c]

Reply(s, b, a) == [status |-> s, body |-> b, isArray |-> a]

NoReply == Reply(0, <<>>, FALSE)

\* An error envelope with the id null.
ErrorReply(s, c) ==
    Reply(s, <<[of |-> 0, id |-> NullId, kind |-> "error", code |-> c]>>,
          FALSE)

IdleMcp ==
    [pc |-> "idle", body |-> Body(TRUE, <<>>), valid |-> <<>>, i |-> 0,
     responses |-> <<>>, callbacks |-> <<>>, reply |-> NoReply]

NoMcp == mcp = IdleMcp

\* The callbacks that the notifications among messages from .. to invoke.
RECURSIVE NotificationCalls(_, _, _)
NotificationCalls(valid, from, to) ==
    IF from > to THEN <<>>
    ELSE (IF /\ isNotification(valid[from])
             /\ Dispatch(valid[from]).kind = "callback"
          THEN <<from>> ELSE <<>>)
           \o NotificationCalls(valid, from + 1, to)

\* A request that handleRequest answers before it reads any message:
\* OPTIONS, another path, another method, another content type, or a body
\* that is not JSON.
McpRefuse(status) ==
    /\ mcp.pc = "idle"
    /\ status \in {204, 404, 405, 415, 500}
    /\ mcp' = [mcp EXCEPT !.pc = "done",
                          !.reply = IF status \in {204, 404}
                                    THEN Reply(status, <<>>, FALSE)
                                    ELSE IF status = 500
                                    THEN ErrorReply(500, InternalError)
                                    ELSE ErrorReply(status, -32000)]
    /\ UNCHANGED <<coreVars, listener, page>>

\* POST /mcp with a JSON body: the messages are filtered; a body without
\* valid messages is refused, one without requests is answered at once.
McpPost(body) ==
    /\ mcp.pc = "idle"
    /\ LET valid == SelectSeq(body.messages, ValidMessage)
           hasRequests == \E n \in DOMAIN valid : isRequest(valid[n])
       IN  mcp' =
               IF valid = <<>>
               THEN [mcp EXCEPT !.pc = "done", !.body = body,
                                !.reply = ErrorReply(400, -32600)]
               ELSE IF ~hasRequests
               THEN [mcp EXCEPT
                        !.pc = "done", !.body = body, !.valid = valid,
                        !.callbacks = NotificationCalls(valid, 1, Len(valid)),
                        !.reply = Reply(202, <<>>, FALSE)]
               ELSE [mcp EXCEPT !.pc = "loop", !.body = body,
                                !.valid = valid, !.i = 1]
    /\ UNCHANGED <<coreVars, listener, page>>

\* The loop reaches a message that is not a request: a notification is
\* processed without waiting for it, anything else is passed over.
McpPass ==
    /\ mcp.pc = "loop"
    /\ mcp.i <= Len(mcp.valid)
    /\ ~isRequest(mcp.valid[mcp.i])
    /\ mcp' = [mcp EXCEPT
                  !.i = @ + 1,
                  !.callbacks = @ \o NotificationCalls(mcp.valid, mcp.i,
                                                       mcp.i)]
    /\ UNCHANGED <<coreVars, listener, page>>

\* The loop reaches a request: processMessage runs up to its result, its
\* error or the call of a tool or prompt callback.
McpProcess ==
    /\ mcp.pc = "loop"
    /\ mcp.i <= Len(mcp.valid)
    /\ isRequest(mcp.valid[mcp.i])
    /\ LET msg == mcp.valid[mcp.i]
           d == Dispatch(msg)
       IN  mcp' =
               IF d.kind = "callback"
               THEN [mcp EXCEPT !.pc = "callback",
                                !.callbacks = Append(@, mcp.i)]
               ELSE [mcp EXCEPT
                        !.i = @ + 1,
                        !.responses =
                            Append(@, IF d.kind = "throw"
                                      THEN Failure(msg, mcp.i, d.code)
                                      ELSE Success(msg, mcp.i))]
    /\ UNCHANGED <<coreVars, listener, page>>

\* The callback of a request returns its result.
McpCallbackReturns ==
    /\ mcp.pc = "callback"
    /\ mcp' = [mcp EXCEPT
                  !.pc = "loop", !.i = @ + 1,
                  !.responses = Append(@, Success(mcp.valid[mcp.i], mcp.i))]
    /\ UNCHANGED <<coreVars, listener, page>>

\* The callback of a request throws an Error.
McpCallbackThrows ==
    /\ mcp.pc = "callback"
    /\ mcp' = [mcp EXCEPT
                  !.pc = "loop", !.i = @ + 1,
                  !.responses = Append(@, Failure(mcp.valid[mcp.i], mcp.i,
                                                  InternalError))]
    /\ UNCHANGED <<coreVars, listener, page>>

ReplyWith_First(isArray, responses) ==
    IF responses # <<>> THEN Reply(200, <<responses[1]>>, FALSE)
    ELSE Reply(202, <<>>, FALSE)

\* The reply for the collected responses: all of them as an array, the one
\* there is as an object, or none.
ReplyWith(isArray, responses) ==
    IF isArray /\ Len(responses) > 1 THEN Reply(200, responses, TRUE)
    ELSE IF responses # <<>> THEN Reply(200, <<responses[1]>>, FALSE)
    ELSE Reply(202, <<>>, FALSE)

\* The loop is over: the responses are sent.
McpRespond ==
    /\ mcp.pc = "loop"
    /\ mcp.i > Len(mcp.valid)
    /\ mcp' = [mcp EXCEPT !.pc = "done",
                          !.reply = ReplyWith(mcp.body.isArray,
                                              mcp.responses)]
    /\ UNCHANGED <<coreVars, listener, page>>

\* ------------------------------------------------------------ serve: ports
\* The ports another process may take between the scan and the second
\* Bun.serve.
MaxTaken == 1

\* Bun.serve without a port listens on its default port.
DefaultPort == 3000

\* findAvailablePort(3001) scans startPort .. startPort + 99.
FallbackStart == 3001

ScanLength == 100

\* options.port, or BUN_PORT; 0 stands for undefined.
PortOptions == {0, 3000, 3001, 3050, 8080}

\* The ports in use when serve is called: 3001 up to some port, and any of
\* the preferred ports outside the scanned range.
BusySets ==
    {(FallbackStart .. k) \cup s :
        k \in FallbackStart - 1 .. FallbackStart + ScanLength - 1,
        s \in SUBSET {3000, 8080}}

\* The first port from port to last that is not in use, 0 when there is none.
RECURSIVE Scan(_, _, _)
Scan(port, last, busy) ==
    IF port > last THEN 0
    ELSE IF port \notin busy THEN port
    ELSE Scan(port + 1, last, busy)

findAvailablePort(startPort, busy) ==
    Scan(startPort, startPort + ScanLength - 1, busy)

IdleListener ==
    [pc |-> "idle", port |-> 0, unix |-> FALSE, busy |-> {}, before |-> {},
     candidate |-> 0, bound |-> 0, error |-> "", taken |-> 0]

NoListener == listener = IdleListener

Preferred(port) == IF port = 0 THEN DefaultPort ELSE port

\* serve(handler, { port, unix }) up to the end of the first Bun.serve and,
\* when that fails with EADDRINUSE, of findAvailablePort.
ServeListen(port, unix, socketOk, busy) ==
    /\ listener.pc = "idle"
    /\ LET rec == [listener EXCEPT !.port = port, !.unix = unix,
                                   !.busy = busy, !.before = busy]
           p == Preferred(port)
           free == findAvailablePort(FallbackStart, busy)
       IN  listener' =
               IF port # 0 /\ unix
               THEN [rec EXCEPT
                        !.pc = "failed",
                        !.error = "Cannot specify both port and unix socket"]
               ELSE IF unix
               THEN IF socketOk THEN [rec EXCEPT !.pc = "listening"]
                    ELSE [rec EXCEPT !.pc = "failed", !.error = "EADDRINUSE"]
               ELSE IF p \notin busy
               THEN [rec EXCEPT !.pc = "listening", !.bound = p]
               ELSE IF free = 0
               THEN [rec EXCEPT !.pc = "failed",
                                !.error = "No available port found"]
               ELSE [rec EXCEPT !.pc = "rebind", !.candidate = free]
    /\ UNCHANGED <<coreVars, mcp, page>>

\* Another process binds a port after findAvailablePort released it.
PortTaken(q) ==
    /\ listener.pc = "rebind"
    /\ listener.taken < MaxTaken
    /\ q \notin listener.busy
    /\ listener' = [listener EXCEPT !.busy = @ \cup {q}, !.taken = @ + 1]
    /\ UNCHANGED <<coreVars, mcp, page>>

\* The second Bun.serve, on the port findAvailablePort returned.
ServeRebind ==
    /\ listener.pc = "rebind"
    /\ listener' =
           IF listener.candidate \notin listener.busy
           THEN [listener EXCEPT !.pc = "listening",
                                 !.bound = listener.candidate]
           ELSE [listener EXCEPT !.pc = "failed", !.error = "EADDRINUSE"]
    /\ UNCHANGED <<coreVars, mcp, page>>

\* --------------------------------------------------- page server: servePage
\* The HTML of a page is a sequence of pieces; the stream of the file hands
\* them over one by one.
MaxHtml == 3

Pieces == {"<head>", "<HEAD>", "<p>", "</body>", "</BODY>"}

\* toLowerCase, on pieces whose lower case has the same length.
Lower(piece) ==
    IF piece = "<HEAD>" THEN "<head>"
    ELSE IF piece = "</BODY>" THEN "</body>"
    ELSE piece

Htmls == UNION {[1 .. n -> Pieces] : n \in 0 .. MaxHtml}

ImportMapScript == "<script type=importmap>"

\* What the handler can resolve with: data that JSON.stringify serializes,
\* and data on which it throws (a cycle, a BigInt).
ServerData == {"data", "cyclic"}

FailedData == "Failed to load server data"

\* The place of the first piece that matches, 0 when none does.
RECURSIVE Find(_, _)
Find(html, piece) ==
    IF html = <<>> THEN 0
    ELSE IF Lower(Head(html)) = piece THEN 1
    ELSE LET i == Find(Tail(html), piece) IN IF i = 0 THEN 0 ELSE i + 1

\* htmlContent.replace(/<head>/i, `<head>${importMapScript}`)
InjectImportMap(html) ==
    LET i == Find(html, "<head>")
    IN  IF i = 0 THEN html
        ELSE SubSeq(html, 1, i - 1) \o <<"<head>", ImportMapScript>>
               \o SubSeq(html, i + 1, Len(html))

\* modifiedHtml.substring(0, bodyEndIndex + 7)
FirstChunk(html) ==
    LET modifiedHtml == InjectImportMap(html)
    IN  SubSeq(modifiedHtml, 1, Find(modifiedHtml, "</body>"))

SecondChunk(serverData) ==
    <<"<script>window.serverData =", serverData, "requestId", "</script>",
      "</body></html>">>

IdlePage ==
    [pc |-> "idle", html |-> <<>>, read |-> <<>>, handler |-> "idle",
     serverData |-> "", chunks |-> <<>>, error |-> ""]

NoPage == page = IdlePage

InRace(pc) == pc \in {"read", "await"}

\* servePage is called: the handler is started and races the timer.
ServePage(html) ==
    /\ page.pc = "idle"
    /\ page' = [page EXCEPT !.pc = "read", !.html = html,
                            !.handler = "pending"]
    /\ UNCHANGED <<coreVars, mcp, listener>>

\* reader.read() gives the next piece of the file.
PageRead ==
    /\ page.pc = "read"
    /\ Len(page.read) < Len(page.html)
    /\ page' = [page EXCEPT !.read = Append(@, page.html[Len(@) + 1])]
    /\ UNCHANGED <<coreVars, mcp, listener>>

\* The file is read: servePage throws on an empty file and on one without
\* </body>; otherwise the stream is made, its start enqueues the first
\* chunk, and the response is returned.
PageReadDone ==
    /\ page.pc = "read"
    /\ Len(page.read) = Len(page.html)
    /\ page' =
           IF page.read = <<>>
           THEN [page EXCEPT !.pc = "thrown",
                             !.error = "No HTML content found"]
           ELSE IF Find(InjectImportMap(page.read), "</body>") = 0
           THEN [page EXCEPT !.pc = "thrown",
                             !.error = "HTML missing </body> tag"]
           ELSE [page EXCEPT !.pc = "await",
                             !.chunks = <<FirstChunk(page.read)>>]
    /\ UNCHANGED <<coreVars, mcp, listener>>

\* The handler resolves before the timer fires.
HandlerResolves(data) ==
    /\ InRace(page.pc)
    /\ page.handler = "pending"
    /\ page' = [page EXCEPT !.handler = "resolved", !.serverData = data]
    /\ UNCHANGED <<coreVars, mcp, listener>>

\* The handler rejects before the timer fires.
HandlerRejects ==
    /\ InRace(page.pc)
    /\ page.handler = "pending"
    /\ page' = [page EXCEPT !.handler = "rejected",
                            !.serverData = FailedData]
    /\ UNCHANGED <<coreVars, mcp, listener>>

\* The timer fires after 5 seconds, the handler still pending.
HandlerTimeout ==
    /\ InRace(page.pc)
    /\ page.handler = "pending"
    /\ page' = [page EXCEPT !.handler = "timeout",
                            !.serverData = FailedData]
    /\ UNCHANGED <<coreVars, mcp, listener>>

\* serverDataPromise has settled: the second chunk is enqueued and the
\* stream closed, unless JSON.stringify throws, which errors the stream.
PageData ==
    /\ page.pc = "await"
    /\ page.handler # "pending"
    /\ page' =
           IF page.serverData = "cyclic"
           THEN [page EXCEPT !.pc = "errored", !.error = "TypeError"]
           ELSE [page EXCEPT !.pc = "closed",
                             !.chunks = Append(@, SecondChunk(page.serverData))]
    /\ UNCHANGED <<coreVars, mcp, listener>>

NoOthers == NoMcp /\ NoListener /\ NoPage

\* clearCaches() empties both maps.
clearCaches ==
    /\ <<buildCache, builtAssets>> # <<EmptyMap, EmptyMap>>
    /\ buildCache' = EmptyMap
    /\ builtAssets' = EmptyMap
    /\ UNCHANGED <<isDev, pkgOk, fs, calls, edits, returned, okRes>>
    /\ UNCHANGED <<serveVars, importVars, otherVars>>

\* ----------------------------------------------------------- specification
InitBuild(nCalls) ==
    /\ fs = [p \in AllPaths \ {""} |-> InitialContent(p)]
    /\ buildCache = EmptyMap
    /\ builtAssets = EmptyMap
    /\ calls = [c \in 1 .. nCalls |-> IdleCall]
    /\ edits = [p \in Editable |-> 0]
    /\ returned = {}
    /\ okRes = [k \in {"script", "style", "asset"} \X AllPaths |-> {}]

\* The steps of the build calls that are under way.
BuildProgress ==
    \/ \E c \in Calls : ScriptPkg(c)
    \/ \E c \in Calls : ScriptBundled(c)
    \/ \E c \in Calls : ScriptOutput(c)
    \/ \E c \in Calls : ScriptMain(c)
    \/ \E c \in Calls : StyleRead(c)
    \/ \E c \in Calls : StylePostcss(c)
    \/ \E c \in Calls : AssetExists(c)
    \/ \E c \in Calls : AssetRead(c)

BuildFailure ==
    \/ \E c \in Calls : ScriptBundleThrows(c)
    \/ \E c \in Calls : ScriptBundleEmpty(c)
    \/ \E c \in Calls, ok \in BOOLEAN : ScriptFallback(c, ok)

\* No server is running.
NoServe ==
    /\ serveIsDev = isDev
    /\ reqs = <<>>

InitServe(nReqs) ==
    /\ serveIsDev \in BOOLEAN
    /\ reqs = [r \in 1 .. nReqs |-> IdleReq]

Init ==
    /\ isDev \in BOOLEAN
    /\ pkgOk \in BOOLEAN
    /\ InitBuild(MaxCalls)
    /\ NoServe
    /\ NoImports
    /\ NoOthers

Next ==
    \/ \E c \in Calls, p \in {""} \cup GonePaths \cup ScriptPaths,
          x \in BOOLEAN : StartScript(c, p, x)
    \/ \E c \in Calls, p \in {""} \cup GonePaths \cup StylePaths :
          StartStyle(c, p)
    \/ \E c \in Calls, f \in AssetArgs : StartAsset(c, f)
    \/ BuildProgress
    \/ BuildFailure
    \/ \E p \in Editable, c \in Edits : EditSource(p, c)

Spec == Init /\ [][Next]_vars

\* A production server with an importable package.json, building one script
\* (with and without external dependencies) and one stylesheet, which is also
\* built as a plain asset; nothing is edited.
InitProd ==
    /\ isDev = FALSE
    /\ pkgOk = TRUE
    /\ InitBuild(MaxProdCalls)
    /\ NoServe
    /\ NoImports
    /\ NoOthers

NextProd ==
    \/ \E c \in Calls, x \in BOOLEAN : StartScript(c, "src/app.ts", x)
    \/ \E c \in Calls : StartStyle(c, "d1/a.css")
    \/ \E c \in Calls : StartAsset(c, "d1/a.css")
    \/ BuildProgress

SpecProd == InitProd /\ [][NextProd]_vars

\* A server in front of the build functions: files are built and edited
\* while requests for the root, for virtual paths and for a path that is
\* built later arrive; the handler answers with a string.
LaterPath == StyleOutputPath("d1/a.css", PostCssCss("c1"))

Targets == {RootPath, LaterPath} \cup returned \cup DOMAIN builtAssets

InitAssets ==
    /\ isDev \in BOOLEAN
    /\ pkgOk = TRUE
    /\ InitBuild(MaxAssetCalls)
    /\ InitServe(MaxAssetReqs)
    /\ NoImports
    /\ NoOthers

NextAssets ==
    \/ \E c \in Calls : StartScript(c, "src/app.ts", FALSE)
    \/ \E c \in Calls, p \in {"d1/a.css", "d2/a.css"} : StartStyle(c, p)
    \/ \E c \in Calls, p \in ImagePaths : StartAsset(c, p)
    \/ BuildProgress
    \/ \E p \in Editable, c \in Edits : EditSource(p, c)
    \/ \E r \in Reqs, t \in Targets : Fetch(r, t, NoId, "k3j9x2ab")
    \/ \E r \in Reqs, out \in SimpleOutcomes : HandlerSettle(r, out)

SpecAssets == InitAssets /\ [][NextAssets]_vars

\* Build calls and requests with clearCaches() called in between.
InitClear ==
    /\ isDev \in BOOLEAN
    /\ pkgOk = TRUE
    /\ InitBuild(MaxClearCalls)
    /\ InitServe(MaxClearReqs)
    /\ NoImports
    /\ NoOthers

NextClear ==
    \/ \E c \in Calls : StartScript(c, "src/app.ts", FALSE)
    \/ \E c \in Calls : StartStyle(c, "d1/a.css")
    \/ \E c \in Calls, p \in ImagePaths : StartAsset(c, p)
    \/ BuildProgress
    \/ \E r \in Reqs, t \in {RootPath} \cup returned :
          Fetch(r, t, NoId, "k3j9x2ab")
    \/ \E r \in Reqs, out \in SimpleOutcomes : HandlerSettle(r, out)
    \/ clearCaches

SpecClear == InitClear /\ [][NextClear]_vars

\* One style sheet is built while requests arrive whose handler does
\* anything a handler can do.
InitServing ==
    /\ isDev \in BOOLEAN
    /\ pkgOk = TRUE
    /\ InitBuild(1)
    /\ InitServe(MaxReqs)
    /\ NoImports
    /\ NoOthers

NextServe ==
    \/ \E c \in Calls : StartStyle(c, "d1/a.css")
    \/ \E c \in Calls : StyleRead(c)
    \/ \E c \in Calls : StylePostcss(c)
    \/ \E r \in Reqs, t \in Targets, i \in {NoId} \cup ClientIds,
          g \in GenIds : Fetch(r, t, i, g)
    \/ \E r \in Reqs, out \in HandlerOutcomes : HandlerSettle(r, out)
    \/ \E r \in Reqs, chunk \in ChunkSet : StreamYield(r, chunk)
    \/ \E r \in Reqs : StreamEnqueue(r)
    \/ \E r \in Reqs : StreamReturn(r)
    \/ \E r \in Reqs : StreamThrow(r)

SpecServe == InitServing /\ [][NextServe]_vars

\* One call of imports() with every list of subpaths, manifest and lock file
\* of the bounded sets, in both modes, whatever the working directory holds.
InitImports ==
    /\ isDev \in BOOLEAN
    /\ pkgOk = TRUE
    /\ InitBuild(0)
    /\ NoServe
    /\ NoImports
    /\ NoOthers

JsonArgs == {NullJson} \cup {PackageJson(m) : m \in Manifests}

LockArgs == {NullLock} \cup {BunLock(l) : l \in LockFiles}

NextImports ==
    \/ \E s \in SubpathLists, j \in JsonArgs, l \in LockArgs :
          ImportsCall(s, j, l)
    \/ \E m \in Manifests : PackageLoaded(m)
    \/ PackageMissing
    \/ \E l \in LockFiles : LockLoaded(l)
    \/ LockMissing
    \/ Generate

SpecImports == InitImports /\ [][NextImports]_vars

\* One request to the MCP endpoint.
InitQuiet ==
    /\ isDev = FALSE
    /\ pkgOk = TRUE
    /\ InitBuild(0)
    /\ NoServe
    /\ NoImports

InitMcp == InitQuiet /\ NoOthers

NextMcp ==
    \/ \E status \in {204, 404, 405, 415, 500} : McpRefuse(status)
    \/ \E body \in Bodies : McpPost(body)
    \/ McpPass
    \/ McpProcess
    \/ McpCallbackReturns
    \/ McpCallbackThrows
    \/ McpRespond

SpecMcp == InitMcp /\ [][NextMcp]_vars

\* One call of serve() with each preferred port and each set of ports in use.
InitPorts == InitQuiet /\ NoOthers

NextPorts ==
    \/ \E port \in PortOptions, unix, socketOk \in BOOLEAN,
          busy \in BusySets : ServeListen(port, unix, socketOk, busy)
    \/ \E q \in {listener.candidate, listener.candidate + 1} :
          PortTaken(q)
    \/ ServeRebind

SpecPorts == InitPorts /\ [][NextPorts]_vars

\* One page served by servePage.
InitPage == InitQuiet /\ NoOthers

NextPage ==
    \/ \E html \in Htmls : ServePage(html)
    \/ PageRead
    \/ PageReadDone
    \/ \E data \in ServerData : HandlerResolves(data)
    \/ HandlerRejects
    \/ HandlerTimeout
    \/ PageData

SpecPage == InitPage /\ [][NextPage]_vars

\* The event loop runs what is ready, and the timer fires.
SpecPageLive ==
    /\ SpecPage
    /\ WF_vars(PageRead)
    /\ WF_vars(PageReadDone)
    /\ WF_vars(HandlerTimeout)
    /\ WF_vars(PageData)

\* ------------------------------------------------------------------ claims
\* C1 as stated: in production, a call of a build function on a source path
\* for which the same function has succeeded before returns the virtual path
\* of every such earlier success, from the cache and without building.
C1_Original ==
    \A c \in Calls :
        (/\ ~isDev
         /\ calls[c].pc = "ok"
         /\ calls[c].path # ""
         /\ Unchanged(c)
         /\ calls[c].prevs # {}) =>
            /\ calls[c].hit
            /\ calls[c].built = 0
            /\ \A v \in calls[c].prevs : calls[c].res = v

NotFoundMessage(fn) ==
    IF fn = "script" THEN "Script not found" ELSE "Style not found"

C8_ArgumentErrors ==
    \A c \in Calls :
        calls[c].fn \in {"script", "style"} =>
            /\ (calls[c].err = "File path is required") <=> (calls[c].path = "")
            /\ (calls[c].err = NotFoundMessage(calls[c].fn))
                  <=> (calls[c].path # "" /\ ~Exists(calls[c].path))
            /\ calls[c].err \notin {"Script not found", "Style not found",
                                    "File path is required"}
                  => Exists(calls[c].path)

C8_Witness ==
    \E c, d \in Calls :
        /\ calls[c].fn = "script" /\ calls[c].path = ""
        /\ calls[c].pc = "failed" /\ calls[c].err = "File path is required"
        /\ calls[d].fn = "style" /\ calls[d].path \in GonePaths
        /\ calls[d].pc = "failed" /\ calls[d].err = "Style not found"

\* C9 as stated: no step stores, under a virtual path already in use, bytes
\* that differ from the bytes stored there before.
C9_Original ==
    [][\A k \in DOMAIN builtAssets :
          k \in DOMAIN builtAssets' /\ builtAssets'[k].content = builtAssets[k].content]_vars

\* What one successful call of build function fn on source p leaves behind
\* when nothing else runs: its virtual path, its buildCache entry and the
\* builtAssets entries it stores.
SinglePath(fn, p, allExternal) ==
    CASE fn = "script" ->
            BunOutputs(p, fs[p], allExternal, isDev)[1].path
      [] fn = "style" -> StyleOutputPath(p, PostCssCss(fs[p]))
      [] OTHER -> AssetOutputPath(p, <<fs[p]>>)

SingleContent(fn, p, allExternal) ==
    CASE fn = "script" -> JsBytes(fs[p], allExternal, isDev)
      [] fn = "style" -> StyleFinalCss(p, PostCssCss(fs[p]))
      [] OTHER -> <<fs[p]>>

SingleAssets(fn, p, allExternal) ==
    CASE fn = "script" ->
            LET outs == BunOutputs(p, fs[p], allExternal, isDev)
            IN  [k \in {outs[i].path : i \in 1 .. Len(outs)} |->
                    LET i == CHOOSE i \in 1 .. Len(outs) : outs[i].path = k
                    IN  [content |-> outs[i].bytes,
                         contentType |-> outs[i].type]]
      [] fn = "style" -> StyleAssets(EmptyMap, p, fs[p], PostCssCss(fs[p]))
      [] OTHER ->
            [k \in {AssetOutputPath(p, <<fs[p]>>)} |->
                [content |-> <<fs[p]>>,
                 contentType |-> getContentType(ExtName(p))]]

UsedCalls == {c \in Calls : calls[c].pc # "idle"}

\* Call d started while call c was still under way.
Overlap(c, d) == c \in calls[d].with

SameSource(c, d) ==
    /\ calls[c].fn = calls[d].fn
    /\ calls[c].path = calls[d].path

SameArguments(c, d) ==
    /\ SameSource(c, d)
    /\ calls[c].allExternal = calls[d].allExternal

\* The outcome of a group of calls that raced each other to build one source.
RaceOutcome(group) ==
    /\ \A c, d \in group :
          /\ calls[c].pc = calls[d].pc
          /\ calls[c].res = calls[d].res
    /\ \A c \in group :
          calls[c].pc = "ok" =>
              /\ calls[c].built = 1
              /\ calls[c].res = SinglePath(calls[c].fn, calls[c].path,
                                           calls[c].allExternal)
    /\ \A c \in group :
          (calls[c].pc = "ok" /\ group = UsedCalls) =>
              LET fn == calls[c].fn
                  p == calls[c].path
                  x == calls[c].allExternal
              IN  /\ DOMAIN buildCache = {p}
                  /\ buildCache[p] = [outputPath |-> SinglePath(fn, p, x),
                                      content |-> SingleContent(fn, p, x)]
                  /\ builtAssets = SingleAssets(fn, p, x)

\* The groups of finished calls that all missed the cache, each of which
\* overlapped another of the group, on a source that did not change.
Racing(group, same(_, _)) ==
    /\ Cardinality(group) >= 2
    /\ \A c \in group :
          /\ calls[c].pc \in {"ok", "failed"}
          /\ calls[c].path # ""
          /\ Exists(calls[c].path)
          /\ ~calls[c].hit
          /\ Unchanged(c)
          /\ \E d \in group : d # c /\ (Overlap(c, d) \/ Overlap(d, c))
    /\ \A c, d \in group : same(c, d)

HeaderOf(headers, name) ==
    IF name \in DOMAIN headers THEN headers[name] ELSE ""

Answered == {r \in Reqs : reqs[r].pc # "idle"}

\* The response of request r is the built asset found at its lookup.
FromAsset(r) ==
    /\ reqs[r].pc = "done"
    /\ reqs[r].status = 200
    /\ reqs[r].body = reqs[r].snap.content
    /\ HeaderOf(reqs[r].headers, "Content-Type") = reqs[r].snap.contentType
    /\ reqs[r].handlerCalls = 0

C2_Served ==
    /\ returned \subseteq DOMAIN builtAssets
    /\ \A r \in Answered : reqs[r].wasReturned => FromAsset(r)

C2_Kept ==
    /\ DOMAIN buildCache \subseteq DOMAIN buildCache'
    /\ DOMAIN builtAssets \subseteq DOMAIN builtAssets'

\* C2: every virtual path a build call has returned has an entry in the
\* served-asset map, a request whose pathname is such a path is answered
\* with status 200, the bytes and the content type stored there, and no step
\* of a build call or of a request removes an entry from either cache map.
C2_ReturnedPathServed == []C2_Served /\ [][C2_Kept]_vars

C2_Witness ==
    /\ TotalEdits > 0
    /\ Cardinality(DOMAIN builtAssets) >= 2
    /\ \E r \in Answered :
          /\ reqs[r].wasReturned
          /\ FromAsset(r)
          /\ \A q \in Answered : q <= r
          /\ \A c \in Calls : calls[c].pc = "ok" /\ calls[c].built = 1

\* C3: a request whose pathname is a key of the served-asset map at the
\* lookup is answered from that entry and the handler is never called for
\* it; for every other request the handler is called, once.
C3_AssetsBeforeHandler ==
    \A r \in Answered :
        /\ reqs[r].wasKey => FromAsset(r)
        /\ ~reqs[r].wasKey => reqs[r].handlerCalls = 1

C3_Witness ==
    \E r, q \in Answered :
        /\ r < q
        /\ reqs[r].path = reqs[q].path
        /\ ~reqs[r].wasKey /\ reqs[r].handlerCalls = 1 /\ reqs[r].pc = "done"
        /\ reqs[q].wasKey /\ FromAsset(q)

RECURSIVE Flatten(_)
Flatten(seqs) ==
    IF seqs = <<>> THEN <<>> ELSE Head(seqs) \o Flatten(Tail(seqs))

RECURSIVE EncodeAll(_)
EncodeAll(chunks) ==
    IF chunks = <<>> THEN <<>>
    ELSE Encode(Head(chunks)) \o EncodeAll(Tail(chunks))

\* Text without a surrogate that lacks its partner.
WellFormed(str) == Decode(Encode(str)) = str

\* C4 as stated, for chunks that together are well-formed text: when the
\* producer of a streamed response has returned, the text of the body is the
\* concatenation of the yielded chunks in yield order, the response carries
\* Transfer-Encoding: chunked, and the stream was closed once.
C4_Original ==
    \A r \in Answered :
        (reqs[r].ended = "return" /\ WellFormed(Flatten(reqs[r].chunks))) =>
            /\ Decode(reqs[r].body) = Flatten(reqs[r].chunks)
            /\ HeaderOf(reqs[r].headers, "Transfer-Encoding") = "chunked"
            /\ reqs[r].closes = 1

\* C5: when the producer of a streamed response has thrown after k chunks,
\* the body is the encodings of those k chunks in order, the stream was
\* closed once and takes no more chunks, the error was logged once, the
\* producer was iterated once, and status and headers are those of the
\* streamed response: the error handler was not called.
C5_StreamError ==
    \A r \in Answered :
        reqs[r].ended = "throw" =>
            /\ reqs[r].body = EncodeAll(reqs[r].chunks)
            /\ reqs[r].pc = "done"
            /\ reqs[r].closes = 1
            /\ reqs[r].logged = 1
            /\ reqs[r].iterations = 1
            /\ reqs[r].status = 200
            /\ HeaderOf(reqs[r].headers, "Transfer-Encoding") = "chunked"
            /\ reqs[r].errorCalls = 0

C5_Witness ==
    \E r \in Answered :
        /\ reqs[r].ended = "throw"
        /\ reqs[r].chunks = <<<<"a">>, <<"b">>>>
        /\ reqs[r].body = <<"a", "b">>
        /\ reqs[r].logged = 1

\* C6: a request whose handler threw is answered by the error handler with
\* status 500; the body is the text 'Internal Server Error' when the server
\* was started in production mode and contains the error message when it
\* was started in development mode.
C6_HandlerError ==
    \A r \in Answered :
        reqs[r].outcome = "throw" =>
            /\ reqs[r].pc = "done"
            /\ reqs[r].status = 500
            /\ reqs[r].errorCalls = 1
            /\ ~serveIsDev => reqs[r].body = <<"Internal Server Error">>
            /\ serveIsDev =>
                  \E i \in 1 .. Len(reqs[r].body) :
                      reqs[r].body[i] = reqs[r].thrown

C6_Witness ==
    \E r \in Answered :
        /\ reqs[r].outcome = "throw"
        /\ reqs[r].thrown = "Test error"
        /\ reqs[r].status = 500
        /\ serveIsDev
        /\ reqs[r].body = ErrorPage("Test error")

\* C11: a request whose handler returned a Response is answered with that
\* response's status, status text and body and with its headers, each with
\* the value the handler gave it, except that X-Request-ID is set to the
\* request's id; no other header is added.
C11_ResponsePassthrough ==
    \A r \in Answered :
        reqs[r].outcome = "response" =>
            /\ reqs[r].pc = "done"
            /\ reqs[r].status = reqs[r].handed.status
            /\ reqs[r].statusText = reqs[r].handed.statusText
            /\ reqs[r].body = reqs[r].handed.body
            /\ DOMAIN reqs[r].headers =
                  DOMAIN reqs[r].handed.headers \cup {"X-Request-ID"}
            /\ \A h \in DOMAIN reqs[r].handed.headers \ {"X-Request-ID"} :
                  reqs[r].headers[h] = reqs[r].handed.headers[h]
            /\ reqs[r].headers["X-Request-ID"] = reqs[r].rid

C11_Witness ==
    \E r \in Answered :
        /\ reqs[r].outcome = "response"
        /\ reqs[r].status = 201
        /\ reqs[r].statusText = "Created"
        /\ HeaderOf(reqs[r].headers, "X-Custom") = "Header"
        /\ reqs[r].incoming = NoId
        /\ HeaderOf(reqs[r].headers, "X-Request-ID") \in GenIds

\* The JSON text of a value that has one.
Serialization(v) ==
    CASE v = "object" -> <<"{\"message\":\"Hello\",\"count\":42}">>
      [] v = "null" -> <<"null">>
      [] OTHER -> <<"?">>

StringShape(r) ==
    reqs[r].outcome = "string" =>
        /\ reqs[r].pc = "done"
        /\ reqs[r].status = 200
        /\ reqs[r].body = <<reqs[r].given>>
        /\ HeaderOf(reqs[r].headers, "Content-Type")
              = "text/html; charset=utf-8"

JsonShape(r) ==
    /\ reqs[r].pc = "done"
    /\ reqs[r].status = 200
    /\ HeaderOf(reqs[r].headers, "Content-Type") = "application/json"

\* C12 as stated: a string is sent as the body with Content-Type
\* 'text/html; charset=utf-8' and status 200; any value that is neither a
\* Response, a string nor an async sequence is sent as its JSON serialization
\* with Content-Type 'application/json' and status 200.
C12_Original ==
    \A r \in Answered :
        /\ StringShape(r)
        /\ reqs[r].outcome = "value" =>
              /\ JsonShape(r)
              /\ reqs[r].body = Serialization(reqs[r].given)

\* C12 as amended: a string is sent as stated; a value for which
\* JSON.stringify returns a text is sent as that text with Content-Type
\* 'application/json' and status 200; a value for which it returns undefined
\* is sent in the same way with an empty body; a value for which it throws is
\* answered by the error handler with status 500.
C12_ResponseShape ==
    \A r \in Answered :
        /\ StringShape(r)
        /\ (reqs[r].outcome = "value"
            /\ reqs[r].given \in {"object", "null"}) =>
              /\ JsonShape(r)
              /\ reqs[r].body = Serialization(reqs[r].given)
        /\ (reqs[r].outcome = "value" /\ reqs[r].given = "undefined") =>
              /\ JsonShape(r)
              /\ reqs[r].body = <<>>
        /\ (reqs[r].outcome = "value" /\ reqs[r].given = "circular") =>
              /\ reqs[r].pc = "done"
              /\ reqs[r].status = 500
              /\ reqs[r].errorCalls = 1

C12_Witness ==
    \E r \in Answered :
        /\ reqs[r].outcome = "value"
        /\ reqs[r].given = "object"
        /\ reqs[r].status = 200
        /\ reqs[r].body = <<"{\"message\":\"Hello\",\"count\":42}">>
        /\ HeaderOf(reqs[r].headers, "Content-Type") = "application/json"

\* The requests answered by one of the branches of fetch, not by the error
\* handler.
Handled == {r \in Answered : reqs[r].pc \in {"stream", "done"}
                             /\ reqs[r].errorCalls = 0}

\* C13 as stated: every response of a handled request, whichever branch of
\* fetch made it, carries an X-Request-ID header.
C13_Original ==
    \A r \in Handled : "X-Request-ID" \in DOMAIN reqs[r].headers

\* C14 as stated: for a request that came with an X-Request-ID header no id
\* was generated and the response's X-Request-ID is the request's; for a
\* request that came without, one id was generated.
C14_Original ==
    \A r \in Handled :
        /\ reqs[r].incoming # NoId =>
              /\ reqs[r].genCalls = 0
              /\ HeaderOf(reqs[r].headers, "X-Request-ID") = reqs[r].incoming
        /\ reqs[r].incoming = NoId => reqs[r].genCalls = 1

IsPrefix(s, t) == Len(s) <= Len(t) /\ SubSeq(t, 1, Len(s)) = s

Streams == {r \in Answered : reqs[r].outcome = "stream"}

\* While a stream is under way its response is out, and at most the chunk
\* yielded last is not enqueued yet.
C15_Handed ==
    \A r \in Streams :
        /\ reqs[r].status = 200
        /\ HeaderOf(reqs[r].headers, "Transfer-Encoding") = "chunked"
        /\ Len(reqs[r].chunks) + Len(reqs[r].pending) = reqs[r].produced
        /\ Len(reqs[r].pending) <= 1

\* The producer is resumed only when all it has yielded is enqueued, and
\* what is enqueued stays as it is.
C15_Forward ==
    \A r \in Streams :
        /\ reqs'[r].produced > reqs[r].produced =>
              /\ Len(reqs[r].chunks) = reqs[r].produced
              /\ reqs[r].ended = ""
        /\ IsPrefix(reqs[r].chunks, reqs'[r].chunks)
        /\ IsPrefix(reqs[r].body, reqs'[r].body)
        /\ reqs'[r].status = reqs[r].status
        /\ reqs'[r].headers = reqs[r].headers

\* C15: the response of a stream is out from the moment the handler has
\* returned the producer, before any chunk is produced; chunk i is enqueued
\* before the producer is resumed for chunk i+1; what is enqueued is never
\* changed, only extended.
C15_IncrementalStream == []C15_Handed /\ [][C15_Forward]_vars

C15_Witness ==
    \E r \in Streams :
        /\ reqs[r].pc = "stream"
        /\ reqs[r].ended = ""
        /\ reqs[r].body = <<"a">>
        /\ reqs[r].pending = <<<<"b">>>>
        /\ reqs[r].produced = 2

\* The calls that got past the argument and existence checks and are over.
Ran == {c \in Calls : /\ calls[c].pc \in {"ok", "failed"}
                      /\ calls[c].path # ""
                      /\ calls[c].err \notin {"Script not found",
                                              "Style not found",
                                              "Asset not found"}}

\* In development no call is answered from the cache: each one runs its
\* build (unless package.json cannot be imported), and a call during which
\* the source did not change returns the path of the source as it is.
C16_Rebuilt ==
    isDev =>
        \A c \in Ran :
            /\ ~calls[c].hit
            /\ calls[c].built =
                  IF calls[c].err = "package.json not found" THEN 0 ELSE 1
            /\ (calls[c].pc = "ok" /\ Unchanged(c)) =>
                  calls[c].res = SinglePath(calls[c].fn, calls[c].path,
                                            calls[c].allExternal)

\* In development the step in which a call returns leaves the call's result
\* in the buildCache entry of its path.
C16_Overwrites ==
    isDev =>
        \A c \in Calls :
            (calls[c].pc # "ok" /\ calls'[c].pc = "ok"
             /\ calls'[c].path # "") =>
                /\ calls'[c].path \in DOMAIN buildCache'
                /\ buildCache'[calls'[c].path].outputPath = calls'[c].res

\* C16: in development mode every call of a build function on an existing
\* source runs the build again, whether or not buildCache has an entry for
\* the path, and stores its result in that entry, so that a call made after
\* the source has changed returns the path of the changed source.
C16_DevRebuilds == []C16_Rebuilt /\ [][C16_Overwrites]_vars

C16_Witness ==
    /\ isDev
    /\ \E c, d \in Ran :
          /\ c < d
          /\ SameArguments(c, d)
          /\ calls[c].pc = "ok" /\ calls[d].pc = "ok"
          /\ calls[c].res \in calls[d].prevs
          /\ calls[d].ver = 1 /\ Unchanged(d)
          /\ calls[d].built = 1
          /\ calls[d].res # calls[c].res
          /\ buildCache[calls[d].path].outputPath = calls[d].res

Returned == importCall.pc \in {"done", "thrown"}

\* The call had no manifest and none could be imported from the working
\* directory.
NoManifest == importCall.pkgJson.null /\ importCall.packageJson.null

StringDependencies(deps) ==
    {i \in 1 .. Len(deps) : deps[i].spec # NonString}

RECURSIVE IndexOf(_, _)
IndexOf(seq, tok) ==
    IF seq = <<>> THEN 0
    ELSE IF Head(seq) = tok THEN 1
    ELSE LET i == IndexOf(Tail(seq), tok) IN IF i = 0 THEN 0 ELSE i + 1

From(seq, i) == SubSeq(seq, i, Len(seq))

RECURSIVE Until(_, _)
Until(seq, stops) ==
    IF seq = <<>> \/ Head(seq) \in stops THEN <<>>
    ELSE <<Head(seq)>> \o Until(Tail(seq), stops)

RECURSIVE SplitOn(_, _)
SplitOn(seq, sep) ==
    LET first == Until(seq, {sep})
    IN  IF Len(first) = Len(seq) THEN <<first>>
        ELSE <<first>> \o SplitOn(From(seq, Len(first) + 2), sep)

\* The version a URL carries: what stands between the '@' and the path or
\* the query.
UrlVersion(url) == Until(From(url, IndexOf(url, "@") + 1), {"/", "?", "&"})

\* The name@version pairs of the deps= parameter of the entry of a key.
DepsPairs(map, key) ==
    LET url == IF map[key][Len(map[key])] = "/"
               THEN SubSeq(map[key], 1, Len(map[key]) - 1) ELSE map[key]
        i == IndexOf(url, "deps=")
    IN  IF i = 0 THEN <<>> ELSE SplitOn(Until(From(url, i + 1), {"&"}), ",")

PairName(pair) ==
    SelectSeq(Until(pair, {"@"}), LAMBDA t : t # "/")

PairVersion(pair) == From(pair, IndexOf(pair, "@") + 1)

\* C18: in a returned import map any two specifiers of one base package (the
\* first two segments of a scoped specifier, the first segment of any other)
\* carry the same version in their URLs, and each name@version pair of a
\* deps= parameter names a specifier of the map and carries the version of
\* that specifier's URL.
C18_OneVersion ==
    importCall.pc = "done" =>
        LET map == importCall.imports
        IN  /\ \A k1, k2 \in DOMAIN map :
                   NameBase(k1) = NameBase(k2)
                       => UrlVersion(map[k1]) = UrlVersion(map[k2])
            /\ \A k \in DOMAIN map :
                   \A i \in DOMAIN DepsPairs(map, k) :
                       LET pair == DepsPairs(map, k)[i]
                       IN  /\ PairName(pair) \in DOMAIN map
                           /\ PairVersion(pair)
                                  = UrlVersion(map[PairName(pair)])

C18_Witness ==
    /\ importCall.pc = "done"
    /\ {<<"react">>, <<"react", "jsx-runtime">>, <<"react-dom">>,
        <<"react-dom", "client">>} \subseteq DOMAIN importCall.imports
    /\ UrlVersion(importCall.imports[<<"react", "jsx-runtime">>])
           = <<"18.2.0">>
    /\ DepsPairs(importCall.imports, <<"react-dom", "client">>)
           = <<<<"react", "@", "18.2.0">>>>

\* The manifest the call works with has this dependency, with a string for
\* its version.
Declared(n) ==
    /\ ~importCall.packageJson.null
    /\ Lookup(importCall.packageJson.dependencies, n) \notin
           {Undefined, NonString}

CleanedVersion(n) ==
    getCleanVersion(Lookup(importCall.packageJson.dependencies, n))

Requested(subpath) ==
    \E i \in 1 .. Len(importCall.subpaths) : importCall.subpaths[i] = subpath

\* C19 as stated: when the manifest has '@scope/name', a returned import map
\* resolves '@scope/name' to https://esm.sh/@scope/name@<version>, and a
\* requested subpath '@scope/name/sub' to that base with the subpath 'sub'.
C19_Original ==
    (importCall.pc = "done" /\ Declared(<<"@scope", "name">>)) =>
        LET map == importCall.imports
            base == <<"https://esm.sh/", "@scope", "/", "name", "@">>
                        \o CleanedVersion(<<"@scope", "name">>)
        IN  /\ <<"@scope", "name">> \in DOMAIN map
            /\ IsPrefix(base, map[<<"@scope", "name">>])
            /\ Requested(<<"@scope", "name", "sub">>) =>
                   /\ <<"@scope", "name", "sub">> \in DOMAIN map
                   /\ IsPrefix(base \o <<"/", "sub">>,
                               map[<<"@scope", "name", "sub">>])

\* C20 as stated: in a returned import map each dependency n of the manifest
\* with the range r has a URL that begins with https://esm.sh/n@v, v being r
\* without one leading '^' or '~', and each requested subpath b/s whose base
\* package b is a dependency has a URL that begins with
\* https://esm.sh/b@v/s, v being the cleaned version of b.
C20_Original ==
    importCall.pc = "done" =>
        LET map == importCall.imports
            deps == importCall.packageJson.dependencies
        IN  /\ \A i \in StringDependencies(deps) :
                   /\ deps[i].name \in DOMAIN map
                   /\ IsPrefix(<<"https://esm.sh/">> \o Join(deps[i].name)
                                 \o <<"@">> \o CleanedVersion(deps[i].name),
                               map[deps[i].name])
            /\ \A i \in 1 .. Len(importCall.subpaths) :
                   LET subpath == importCall.subpaths[i]
                       b == NameBase(subpath)
                       s == From(subpath, Len(b) + 1)
                   IN  (Declared(b) /\ s # <<>>) =>
                           /\ subpath \in DOMAIN map
                           /\ IsPrefix(<<"https://esm.sh/">> \o Join(b)
                                         \o <<"@">> \o CleanedVersion(b)
                                         \o <<"/">> \o Join(s),
                                       map[subpath])

\* The requested subpaths whose base package (two segments when scoped) has
\* no version among the dependencies.
Unresolvable(deps, subpath) == ~Truthy(Lookup(deps, NameBase(subpath)))

\* C21: a requested subpath whose base package has no version in the
\* manifest is skipped and raises nothing: a call that throws would also
\* have thrown without it, the returned map has no entry for it and is the
\* map the call would have returned had the subpath not been requested, and
\* a call that has a manifest warns about it.
C21_SkippedSubpath ==
    LET deps == importCall.packageJson.dependencies
        kept == SelectSeq(importCall.subpaths,
                          LAMBDA s : ~Unresolvable(deps, s))
    IN  /\ importCall.pc = "thrown" => SubpathThrows(deps, kept)
        /\ importCall.pc = "done" =>
               /\ importCall.imports
                      = GenerateImportMap(kept, deps, importCall.bunLock,
                                          isDev)
               /\ \A i \in 1 .. Len(importCall.subpaths) :
                      Unresolvable(deps, importCall.subpaths[i]) =>
                          /\ importCall.subpaths[i] \notin
                                 DOMAIN importCall.imports
                          /\ ~importCall.packageJson.null =>
                                 \E j \in 1 .. Len(importCall.skipped) :
                                     importCall.skipped[j]
                                         = importCall.subpaths[i]

C21_Witness ==
    /\ importCall.pc = "done"
    /\ importCall.subpaths = <<<<"lodash", "fp">>, <<"react-dom", "client">>>>
    /\ importCall.skipped = <<<<"lodash", "fp">>>>
    /\ <<"react-dom", "client">> \in DOMAIN importCall.imports
    /\ <<"react">> \in DOMAIN importCall.imports

\* The peers the lock file names for a package that are not optional there
\* and are dependencies of the manifest.
ListedPeers(bunLock, deps, package) ==
    IF package \notin DOMAIN bunLock.packages THEN {}
    ELSE {bunLock.packages[package][i].peer :
             i \in {j \in DOMAIN bunLock.packages[package] :
                       /\ ~bunLock.packages[package][j].optional
                       /\ Lookup(deps, bunLock.packages[package][j].peer)
                              # Undefined}}

\* C22: in a returned import map the deps= parameter of every URL names, once
\* each, exactly the peers that the lock file gives for the package of the
\* specifier, that are not optional there and that are dependencies of the
\* manifest; a URL has no deps= parameter when there are none, in particular
\* when the call has no lock data.
C22_PeerDeps ==
    importCall.pc = "done" =>
        LET map == importCall.imports
            deps == importCall.packageJson.dependencies
        IN  \A k \in DOMAIN map :
                LET pairs == DepsPairs(map, k)
                    peers == ListedPeers(importCall.bunLock, deps,
                                         NameBase(k))
                IN  /\ {PairName(pairs[i]) : i \in DOMAIN pairs} = peers
                    /\ Len(pairs) = Cardinality(peers)
                    /\ (IndexOf(map[k], "deps=") # 0) = (peers # {})

C22_Witness ==
    /\ importCall.pc = "done"
    /\ <<"react-dom">> \in DOMAIN importCall.bunLock.packages
    /\ importCall.bunLock.packages[<<"react-dom">>][1].optional
    /\ <<"@scope", "name">> \in DOMAIN importCall.imports
    /\ DepsPairs(importCall.imports, <<"@scope", "name">>)
           = <<<<"react", "@", "18.2.0">>>>
    /\ DepsPairs(importCall.imports, <<"react">>) = <<>>

\* The URL has this flag among its query parameters.
HasFlag(url, flag) ==
    \E i \in 2 .. Len(url) : url[i] = flag /\ url[i - 1] \in {"?", "&"}

\* C23: every URL of a returned import map carries the query flag 'dev' when
\* the module was loaded in a mode other than production, and none carries
\* it when the module was loaded in production.
C23_DevFlag ==
    importCall.pc = "done" =>
        \A k \in DOMAIN importCall.imports :
            HasFlag(importCall.imports[k], "dev") = isDev

C23_Witness ==
    /\ importCall.pc = "done"
    /\ isDev
    /\ <<"react-dom", "client">> \in DOMAIN importCall.imports
    /\ HasFlag(importCall.imports[<<"react-dom", "client">>], "dev")
    /\ IndexOf(importCall.imports[<<"react-dom", "client">>], "deps=") # 0

\* C24 as stated: in a returned import map the address of every specifier
\* that ends in '/' ends in '/' too and has no '?'.
C24_Original ==
    importCall.pc = "done" =>
        \A k \in DOMAIN importCall.imports :
            EndsWithSlash(k) =>
                LET url == importCall.imports[k]
                IN  /\ url[Len(url)] = "/"
                    /\ IndexOf(url, "?") = 0

\* The messages the endpoint has finished with.
Processed ==
    {n \in DOMAIN mcp.valid :
        mcp.pc \in {"loop", "callback", "done"} /\ n < mcp.i}

\* The request is answered by an error envelope with this code and the
\* request's id, which is part of the reply once the reply is sent, and no
\* callback was invoked for it.
Rejected(n, code) ==
    /\ \E j \in DOMAIN mcp.responses :
           /\ mcp.responses[j].of = n
           /\ mcp.responses[j].kind = "error"
           /\ mcp.responses[j].code = code
           /\ mcp.responses[j].id = mcp.valid[n].id
           /\ mcp.pc = "done" =>
                  /\ mcp.reply.status = 200
                  /\ \E k \in DOMAIN mcp.reply.body :
                         mcp.reply.body[k] = mcp.responses[j]
    /\ \A j \in DOMAIN mcp.callbacks : mcp.callbacks[j] # n

Unsupported(msg) ==
    msg.method \notin {"tools/list", "tools/call", "prompts/get",
                       "notifications/initialized"}

\* A tools/call or prompts/get without name or arguments, or naming an entry
\* that is unknown or disabled.
BadCall(msg) ==
    LET map == IF msg.method = "tools/call" THEN toolMap ELSE promptMap
    IN  /\ msg.method \in {"tools/call", "prompts/get"}
        /\ \/ ~msg.params.present
           \/ msg.params.name = ""
           \/ ~msg.params.hasArguments
           \/ msg.params.name \notin DOMAIN map
           \/ ~map[msg.params.name]

\* C25: a request (a JSON-RPC 2.0 message with a method and an id that is
\* not null) for a method outside the supported set is answered with the
\* error code -32601 and its own id; a tools/call or prompts/get request
\* without name or arguments, or naming an unknown or disabled entry, is
\* answered with -32602 and its own id; in both cases no tool or prompt
\* callback is invoked for the request, and the envelope is part of the
\* reply.
C25_ErrorCodes ==
    \A n \in Processed :
        isRequest(mcp.valid[n]) =>
            /\ Unsupported(mcp.valid[n]) => Rejected(n, -32601)
            /\ BadCall(mcp.valid[n]) => Rejected(n, -32602)

C25_Witness ==
    /\ mcp.pc = "done"
    /\ mcp.reply.status = 200
    /\ Len(mcp.reply.body) = 2
    /\ mcp.reply.body[1].code = -32601
    /\ mcp.reply.body[1].id = "id1"
    /\ mcp.reply.body[2].code = -32602
    /\ mcp.reply.body[2].id = "id2"
    /\ mcp.valid[2].params.name = "off"
    /\ mcp.callbacks = <<>>

\* The requests of the body, in its order.
Requests == SelectSeq(mcp.body.messages, isRequest)

\* C29: the reply to a POST body that has a valid message holds exactly one
\* response object for each request of the body (a JSON-RPC 2.0 message
\* with a method and an id that is not null), with the id of that request,
\* in the order of the requests; messages without an id contribute nothing;
\* a body without requests is answered with status 202 and no body.
C29_Batch ==
    (mcp.pc = "done" /\ mcp.valid # <<>>) =>
        /\ Len(mcp.reply.body) = Len(Requests)
        /\ \A j \in DOMAIN mcp.reply.body :
               /\ mcp.reply.body[j].id = Requests[j].id
               /\ mcp.valid[mcp.reply.body[j].of] = Requests[j]
               /\ \A k \in DOMAIN mcp.reply.body :
                      j < k => mcp.reply.body[j].of < mcp.reply.body[k].of
        /\ mcp.reply.status = IF Requests = <<>> THEN 202 ELSE 200
        /\ mcp.reply.isArray => mcp.body.isArray

C29_Witness ==
    /\ mcp.pc = "done"
    /\ mcp.body.isArray
    /\ Len(mcp.body.messages) = 2
    /\ mcp.reply.status = 200
    /\ mcp.reply.isArray
    /\ Len(mcp.reply.body) = 2
    /\ mcp.reply.body[1].id = "id2"
    /\ mcp.reply.body[2].id = "id1"
    /\ mcp.reply.body[1].kind = "result"
    /\ mcp.callbacks = <<1>>

\* serve found its preferred port in use and went on to the fallback.
FellBack ==
    /\ ~listener.unix
    /\ listener.pc \in {"rebind", "listening", "failed"}
    /\ Preferred(listener.port) \in listener.before

\* The ports after the preferred one that a scan of the fallback's length
\* would cover.
Subsequent ==
    Preferred(listener.port) + 1 .. Preferred(listener.port) + ScanLength

\* C26 as stated: when the preferred port is in use, serve binds the first
\* free port among the ports that follow the preferred one, and fails when
\* none of them is free.
C26_Original ==
    FellBack =>
        /\ listener.pc = "listening" =>
               /\ listener.bound \in Subsequent
               /\ \A q \in Subsequent :
                      q < listener.bound => q \in listener.before
        /\ listener.pc = "failed" => Subsequent \subseteq listener.busy

\* C27 as stated: in every state, whatever the interleaving of build calls,
\* requests and clearCaches, the outputPath of each buildCache entry is a key
\* of builtAssets, and the bytes stored there are those of the entry.
C27_Original ==
    \A p \in DOMAIN buildCache :
        /\ buildCache[p].outputPath \in DOMAIN builtAssets
        /\ builtAssets[buildCache[p].outputPath].content
               = buildCache[p].content

\* The call takes this step.
Steps(c) == calls'[c] # calls[c]

Writes == buildCache' # buildCache \/ builtAssets' # builtAssets

\* A step in which a call writes to a map leaves the call on its way to
\* success, and a call on that way does not fail: so the steps of a call
\* that fails, the failing one included, change neither map.
C28_Frame ==
    \A c \in Calls :
        /\ (Steps(c) /\ Writes) => calls'[c].pc \in {"out", "main", "ok"}
        /\ calls[c].pc \in {"out", "main"}
               => calls'[c].pc \in {"out", "main", "ok"}
        /\ (Steps(c) /\ calls'[c].pc = "failed")
               => /\ buildCache' = buildCache
                  /\ builtAssets' = builtAssets

\* C28: a build call that fails, on an empty path, a missing file, a missing
\* package.json, a throwing bundler or transform, or a bundle without
\* entry point, writes to neither buildCache nor builtAssets at any of its
\* steps: the maps hold what the other calls stored there.
C28_FailedCallsWriteNothing == [][C28_Frame]_vars

C28_Witness ==
    \E c, d \in Calls :
        /\ c < d
        /\ calls[c].pc = "ok"
        /\ calls[d].pc = "failed"
        /\ calls[d].err \notin {"File path is required", ""}
        /\ calls[d].path # calls[c].path
        /\ DOMAIN buildCache = {calls[c].path}
        /\ calls[c].res \in DOMAIN builtAssets

\* The two chunks the response is to carry for the page that was read.
TwoChunks ==
    <<FirstChunk(page.read), SecondChunk(page.serverData)>>

Injected(chunk) == \E i \in 1 .. Len(chunk) : chunk[i] = ImportMapScript

\* What the response carries so far is a start of the two chunks, the first
\* of them with the import map, and a closed stream carries both.
ChunkOrder ==
    /\ Len(page.chunks) <= 2
    /\ \A i \in 1 .. Len(page.chunks) : page.chunks[i] = TwoChunks[i]
    /\ page.chunks # <<>> => Injected(page.chunks[1])
    /\ page.pc = "await" => Len(page.chunks) = 1
    /\ page.pc = "closed" => Len(page.chunks) = 2

Served == page.pc # "idle"

Closed == page.pc = "closed"

\* C30 as stated: the response for a page is the first chunk, the HTML up to
\* the end of the body with the import map injected, enqueued before the
\* handler's result is awaited, then the server-data script, and the stream
\* of every page served is eventually closed.
C30_Original == [](ChunkOrder) /\ (Served ~> Closed)

\* The same for a page with a <head> before its </body> whose handler gives
\* data that JSON.stringify serializes.
WellFormedPage ==
    /\ Find(page.html, "<head>") # 0
    /\ Find(page.html, "<head>") < Find(page.html, "</body>")
    /\ page.serverData # "cyclic"

C30_Serializable ==
    /\ [](WellFormedPage => ChunkOrder)
    /\ (Served /\ [](WellFormedPage)) ~> Closed

====
